---- MODULE Spec2Model ----
(***************************************************************************)
(* State-machine model of the RUNE plugin SDK example plugins.             *)
(*                                                                         *)
(* The timer plugin (timer_plugin.cpp) is modelled statement by statement: *)
(* the graph thread runs one capability call at a time, the host's timer   *)
(* thread runs one timer callback at a time, and the two interleave at     *)
(* every access to a TimerInstance / DelayInstance field.  The host side   *)
(* (timer subsystem, scheduler) is not part of the SDK sources; it is      *)
(* modelled from the contract the SDK documents.                           *)
(*                                                                         *)
(* The math plugin's execute functions are modelled as operators over an   *)
(* execution-context record; SpecMath applies them to bounded inputs.      *)
(***************************************************************************)
EXTENDS Integers, Sequences, FiniteSets, TLC

(* ------------------------------ bounds --------------------------------- *)

\* Execution contexts the host hands out (one per start_listening / execute call).
MaxCtx == 3
\* Cap on TimerInstance.tick_count (a uint64_t counter in the code).
MaxTicks == 2
\* Math inputs range over -MaxVal..MaxVal.
MaxVal == 3
\* unregister_node calls the host makes
MaxUnregistered == 2
\* Rows, and cells of the first row, of a table csv_parse returns.
MaxRows == 2

(* ----------------------------- constants ------------------------------- *)

DefaultIntervalMs == 1000
DefaultDelayMs == 1000
LOG_LEVEL_DEBUG == 0
LOG_LEVEL_INFO == 1
LOG_LEVEL_ERROR == 3
\* 2^16, the base of the two limbs of a uint32_t
Limb == 256 * 256

VARIABLES
    g_host,     \* static HostServices* g_host of the timer plugin: TRUE iff non-null
    tinst,      \* the TimerInstance
    dinst,      \* the DelayInstance
    timers,     \* host timer subsystem: the registered timers
    host,       \* host bookkeeping: plugin load state, registry, scheduler's view
    g,          \* graph thread: the capability call in progress and its locals
    t,          \* timer thread: the callback in progress
    ev,         \* the last call made across the plugin boundary (or return value)
    hist,       \* history of the run, read only by the properties
    m           \* math plugin: one execute call and what it did to its context

vars == <<g_host, tinst, dinst, timers, host, g, t, ev, hist, m>>

(* ------------------------------ helpers -------------------------------- *)

\* A call across the boundary: function `by' calls `call' through context ctx
\* (0 = not a context call) with an integer and a string argument.  A return
\* is the call "return" with the value in arg (0 = false / void, 1 = true).
Ev(call, by, ctx, arg, str) ==
    [call |-> call, by |-> by, ctx |-> ctx, arg |-> arg, str |-> str]
NoEv == Ev("none", "", 0, 0, "")

\* uint32_t values are kept as two 16-bit limbs.
U32(hi, lo) == [hi |-> hi, lo |-> lo]
U32Zero == U32(0, 0)
\* (uint32_t)n for an int n: two's complement wrap of negative values.
ToUint32(n) ==
    IF n >= 0 THEN U32((n \div Limb) % Limb, n % Limb)
    ELSE LET p == -(n + 1) IN U32((Limb - 1) - ((p \div Limb) % Limb), (Limb - 1) - (p % Limb))

\* C strings are sequences of one-character strings.
Digits == {"0", "1", "2", "3", "4", "5", "6", "7", "8", "9"}
DigitVal(c) ==
    CASE c = "0" -> 0 [] c = "1" -> 1 [] c = "2" -> 2 [] c = "3" -> 3 [] c = "4" -> 4
      [] c = "5" -> 5 [] c = "6" -> 6 [] c = "7" -> 7 [] c = "8" -> 8 [] c = "9" -> 9

RECURSIVE AtoiDigits(_, _, _)
AtoiDigits(s, i, acc) ==
    IF i > Len(s) \/ s[i] \notin Digits THEN acc
    ELSE AtoiDigits(s, i + 1, acc * 10 + DigitVal(s[i]))

RECURSIVE SkipSpace(_, _)
SkipSpace(s, i) == IF i <= Len(s) /\ s[i] = " " THEN SkipSpace(s, i + 1) ELSE i

\* atoi: leading blanks, an optional sign, then digits up to the first non-digit.
atoi(s) ==
    LET i == SkipSpace(s, 1) IN
    IF i > Len(s) THEN 0
    ELSE IF s[i] = "-" THEN -AtoiDigits(s, i + 1, 0)
    ELSE IF s[i] = "+" THEN AtoiDigits(s, i + 1, 0)
    ELSE AtoiDigits(s, i, 0)

\* IntervalMs property values the host supplies (empty = property not set).
StartProps == {<<>>}
\* DelayMs input values the host supplies.  An int64_t is kept as four 16-bit
\* limbs in two's complement, l3 the most significant.
DelayInputs == {[l3 |-> 0, l2 |-> 0, l1 |-> 0, l0 |-> 0]}

\* The first argument of create_timer in delay_execute (timer_plugin.cpp lines
\* 240-243 and the cast on line 249): delay_ms <= 0 is replaced by 1000, then
\* (uint32_t)delay_ms keeps the low 32 bits.
DelayMsToInterval(delay_ms) ==
    IF delay_ms.l3 >= Limb \div 2
       \/ (delay_ms.l3 = 0 /\ delay_ms.l2 = 0 /\ delay_ms.l1 = 0 /\ delay_ms.l0 = 0)
    THEN U32(0, DefaultDelayMs)
    ELSE U32(delay_ms.l1, delay_ms.l0)

(* --------------------------- host: timers ------------------------------ *)

\* create_timer: a fresh non-zero handle, or 0 on failure.  Handles are never
\* reused; the handle of the timer created for the call holding context c is c.
CreateTimerResults == {0, g.ctx}

\* The registry after create_timer returned id for callback cb.
TimersAfterCreate(id, cb) ==
    IF id = 0 THEN timers ELSE timers \cup {[id |-> id, cb |-> cb]}

\* destroy_timer removes the registration: no firing of id starts afterwards.
TimersAfterDestroy(id) == {r \in timers : r.id # id}

\* destroy_timer called from the graph thread returns only when no callback
\* of that timer is still running on the timer thread.
DestroyTimerMayReturn(id) == t.id # id

(* ------------------------------- Init ---------------------------------- *)

\* The graph thread between calls; afterStop: the call that just returned was
\* timer_stop_listening.
GIdle(fn) == [pc |-> "idle", ctx |-> 0, ret |-> 0, arg |-> 0,
              afterStop |-> (fn = "timer_stop_listening")]
TIdle == [pc |-> "idle", id |-> 0, arg |-> 0]

\* malloc'ed memory not yet handed out by timer_create / delay_create.
TimerInstanceNone ==
    [alloc |-> "none", timer_id |-> 0, ctx |-> 0, active |-> FALSE,
     interval_ms |-> U32Zero, tick_count |-> 0]
DelayInstanceNone ==
    [alloc |-> "none", timer_id |-> 0, ctx |-> 0, completed |-> FALSE]

HistInit ==
    [quiescedT |-> FALSE,      \* stop_listening returned and no start_listening has obtained a timer since
     everStartedT |-> FALSE,   \* timer_start_listening was called on the instance
     expired |-> {},           \* contexts the node may no longer use
     fired |-> {},             \* timers whose callback was invoked at least once
     dTimer |-> 0,             \* timer created by the last delay_execute that returned true
     dReported |-> FALSE,      \* delay_is_complete returned true since the last delay_execute
     interval |-> U32Zero,     \* interval_ms argument of the last create_timer call
     tFirings |-> 0,           \* firings that found the node active since start_listening was called
     cbListening |-> FALSE,    \* the callback in progress began its work while the host had the node Listening
     cbN |-> 0,                \* ordinal of the callback in progress among tFirings (0: did nothing)
     cbCalls |-> <<>>,         \* context calls made by the last timer_callback invocation
     csv |-> [calls |-> <<>>], \* the last csv_parse_execute call: inputs, outcome, accesses
     dTrigCtx |-> 0,           \* the stored context, once it received OnComplete (else 0)
     lookup |-> [node |-> ""]] \* the last execute of a lookup node: host answers, outcome

\* One execute call of a math node: its inputs and what it did to its context.
NoCall == [node |-> "", a |-> 0, b |-> 0, ret |-> FALSE, outputs |-> <<>>, errors |-> <<>>,
           triggers |-> <<>>]

\* The math plugin before on_load: g_host is null, nothing is registered, no
\* create_instance call was made (inst: "none"; "null" once add_create returned
\* nullptr); prev is the execute call made before the last one.  visible is
\* what downstream nodes see of the node's outputs, propagated whether the
\* scheduler carried the last step on past the node.
MathIdle == [pc |-> "idle", node |-> "", a |-> 0, b |-> 0, ret |-> FALSE,
             outputs |-> <<>>, errors |-> <<>>, triggers |-> <<>>,
             g_host |-> FALSE, registered |-> {}, inst |-> "none", prev |-> NoCall,
             visible |-> <<>>, propagated |-> FALSE]

\* A plugin before on_load: its g_host is null and it has registered nothing.
PluginUnloaded == [g_host |-> FALSE, registered |-> FALSE]

Init ==
    /\ g_host = FALSE
    /\ tinst = TimerInstanceNone
    /\ dinst = DelayInstanceNone
    /\ timers = {}
    /\ host = [load |-> "unloaded", registered |-> {}, ctxs |-> <<>>,
               T |-> "Idle", D |-> "Idle", registry |-> <<>>, retired |-> {},
               config |-> PluginUnloaded, env |-> PluginUnloaded]
    /\ g = GIdle("")
    /\ t = TIdle
    /\ ev = NoEv
    /\ hist = HistInit
    /\ m = MathIdle

(* ------------------------------ shared --------------------------------- *)

\* IsTestFlagEnabled(host, key), value = what host->app_env_get(key) returns
\* ("NULL" stands for a null pointer).
TestFlagValues == {"NULL", "", "0", "1", "true", "TRUE"}
IsTestFlagEnabled(hostNonNull, value) ==
    IF ~hostNonNull THEN FALSE
    ELSE IF value = "NULL" \/ value = "" THEN FALSE
    ELSE IF value = "1" THEN TRUE
    ELSE value = "true" \/ value = "TRUE"

\* The graph thread is between capability calls.
GraphIdle == g.pc = "idle"

\* Contexts the host has issued to node `who' ("T" or "D") so far.
CtxsOf(who) == {c \in 1..Len(host.ctxs) : host.ctxs[c] = who}

\* The context the host builds for the next start_listening / execute call.
NextCtx == Len(host.ctxs) + 1

(* --------------------------- node descriptors -------------------------- *)

\* A PinDesc initialiser (plugin_api.h lines 133-139; the RUNE_*_PIN_* macros of
\* rune_plugin.h lines 98-117 expand to the same initialisers).
PinDesc(name, type, direction, kind) ==
    [name |-> name, type |-> type, direction |-> direction, kind |-> kind]

\* A NodeDesc together with the NodeVTable registered with it; vtable is the
\* set of slots that are not NULL, flags the set of NodeFlags bits that are set.
\* id is the NodeTypeId register_node returned for it (0: not registered).
NodeType(name, category, unique_name, pins, pin_count, flags, vtable) ==
    [name |-> name, category |-> category, unique_name |-> unique_name, pins |-> pins,
     pin_count |-> pin_count, flags |-> flags, vtable |-> vtable, id |-> 0]

\* The slots of a NodeVTable (plugin_api.h lines 167-194).
NodeVTableSlots ==
    {"create_instance", "destroy_instance", "draw_inspector", "draw_node_body",
     "serialize", "deserialize", "execute", "on_pre_execute", "on_post_execute",
     "start_listening", "stop_listening", "is_complete"}

\* Slots of a vtable that supplies create, destroy and execute only.
ExecuteOnlyVTable == {"create_instance", "destroy_instance", "execute"}

\* Mutant: the Timer Event node declaring an execution input pin.
timer_desc_WithExecInput ==
    NodeType("Timer Event", "Events", "com.rune.example.timer.event",
         << PinDesc("Execute", "execution", "PIN_IN", "PIN_KIND_EXECUTION"),
            PinDesc("OnTimer", "execution", "PIN_OUT", "PIN_KIND_EXECUTION"),
            PinDesc("TickCount", "int", "PIN_OUT", "PIN_KIND_DATA") >>,
         3, {"NODE_FLAG_TRIGGER_EVENT"},
         {"create_instance", "destroy_instance", "execute", "start_listening", "stop_listening"})

\* timer_plugin.cpp lines 144-174
timer_desc ==
    NodeType("Timer Event", "Events", "com.rune.example.timer.event",
         << PinDesc("IntervalMs", "int", "PIN_IN", "PIN_KIND_DATA"),
            PinDesc("OnTimer", "execution", "PIN_OUT", "PIN_KIND_EXECUTION"),
            PinDesc("TickCount", "int", "PIN_OUT", "PIN_KIND_DATA") >>,
         3, {"NODE_FLAG_TRIGGER_EVENT"},
         {"create_instance", "destroy_instance", "execute", "start_listening", "stop_listening"})

\* timer_plugin.cpp lines 265-294
delay_desc ==
    NodeType("Delay", "Flow Control", "com.rune.example.timer.delay",
         << PinDesc("Execute", "execution", "PIN_IN", "PIN_KIND_EXECUTION"),
            PinDesc("DelayMs", "int", "PIN_IN", "PIN_KIND_DATA"),
            PinDesc("OnComplete", "execution", "PIN_OUT", "PIN_KIND_EXECUTION") >>,
         3, {"NODE_FLAG_ASYNC"},
         {"create_instance", "destroy_instance", "execute", "is_complete"})

\* math_plugin.cpp lines 38-67
add_desc ==
    NodeType("Add", "Math", "com.rune.example.math.add",
         << PinDesc("A", "float", "PIN_IN", "PIN_KIND_DATA"),
            PinDesc("B", "float", "PIN_IN", "PIN_KIND_DATA"),
            PinDesc("Result", "float", "PIN_OUT", "PIN_KIND_DATA") >>,
         3, {"NODE_FLAG_PURE_DATA"},
         ExecuteOnlyVTable)

\* math_plugin.cpp lines 84-111
multiply_desc ==
    NodeType("Multiply", "Math", "com.rune.example.math.multiply",
         << PinDesc("A", "float", "PIN_IN", "PIN_KIND_DATA"),
            PinDesc("B", "float", "PIN_IN", "PIN_KIND_DATA"),
            PinDesc("Result", "float", "PIN_OUT", "PIN_KIND_DATA") >>,
         3, {"NODE_FLAG_PURE_DATA"},
         ExecuteOnlyVTable)

\* math_plugin.cpp lines 133-160
divide_desc ==
    NodeType("Divide", "Math", "com.rune.example.math.divide",
         << PinDesc("A", "float", "PIN_IN", "PIN_KIND_DATA"),
            PinDesc("B", "float", "PIN_IN", "PIN_KIND_DATA"),
            PinDesc("Result", "float", "PIN_OUT", "PIN_KIND_DATA") >>,
         3, {"NODE_FLAG_PURE_DATA"},
         ExecuteOnlyVTable)

\* math_plugin.cpp lines 177-204
power_desc ==
    NodeType("Power", "Math", "com.rune.example.math.power",
         << PinDesc("Base", "float", "PIN_IN", "PIN_KIND_DATA"),
            PinDesc("Exponent", "float", "PIN_IN", "PIN_KIND_DATA"),
            PinDesc("Result", "float", "PIN_OUT", "PIN_KIND_DATA") >>,
         3, {"NODE_FLAG_PURE_DATA"},
         ExecuteOnlyVTable)

\* math_plugin.cpp (config plugin) lines 429-461
json_parse_desc ==
    NodeType("Parse JSON", "Config", "com.rune.example.config.json_parse",
         << PinDesc("Execute", "execution", "PIN_IN", "PIN_KIND_EXECUTION"),
            PinDesc("JSON", "string", "PIN_IN", "PIN_KIND_DATA"),
            PinDesc("Path", "string", "PIN_IN", "PIN_KIND_DATA"),
            PinDesc("Done", "execution", "PIN_OUT", "PIN_KIND_EXECUTION"),
            PinDesc("Value", "string", "PIN_OUT", "PIN_KIND_DATA"),
            PinDesc("Valid", "bool", "PIN_OUT", "PIN_KIND_DATA") >>,
         6, {},
         ExecuteOnlyVTable)

\* Mutant: Parse CSV registered under the identifier of Parse JSON.
csv_parse_desc_CopiedName ==
    NodeType("Parse CSV", "Config", "com.rune.example.config.json_parse",
         << PinDesc("Execute", "execution", "PIN_IN", "PIN_KIND_EXECUTION"),
            PinDesc("CSV", "string", "PIN_IN", "PIN_KIND_DATA"),
            PinDesc("Delimiter", "string", "PIN_IN", "PIN_KIND_DATA"),
            PinDesc("Done", "execution", "PIN_OUT", "PIN_KIND_EXECUTION"),
            PinDesc("RowCount", "int", "PIN_OUT", "PIN_KIND_DATA"),
            PinDesc("FirstCell", "string", "PIN_OUT", "PIN_KIND_DATA") >>,
         6, {},
         ExecuteOnlyVTable)

\* lines 499-529
csv_parse_desc ==
    NodeType("Parse CSV", "Config", "com.rune.example.config.csv_parse",
         << PinDesc("Execute", "execution", "PIN_IN", "PIN_KIND_EXECUTION"),
            PinDesc("CSV", "string", "PIN_IN", "PIN_KIND_DATA"),
            PinDesc("Delimiter", "string", "PIN_IN", "PIN_KIND_DATA"),
            PinDesc("Done", "execution", "PIN_OUT", "PIN_KIND_EXECUTION"),
            PinDesc("RowCount", "int", "PIN_OUT", "PIN_KIND_DATA"),
            PinDesc("FirstCell", "string", "PIN_OUT", "PIN_KIND_DATA") >>,
         6, {},
         ExecuteOnlyVTable)

\* Mutant: INI Get with its second output pin also named "Value".
ini_get_desc_DuplicatePin ==
    NodeType("INI Get", "Config", "com.rune.example.config.ini_get",
         << PinDesc("Execute", "execution", "PIN_IN", "PIN_KIND_EXECUTION"),
            PinDesc("INI", "string", "PIN_IN", "PIN_KIND_DATA"),
            PinDesc("Section", "string", "PIN_IN", "PIN_KIND_DATA"),
            PinDesc("Key", "string", "PIN_IN", "PIN_KIND_DATA"),
            PinDesc("Done", "execution", "PIN_OUT", "PIN_KIND_EXECUTION"),
            PinDesc("Value", "string", "PIN_OUT", "PIN_KIND_DATA"),
            PinDesc("Value", "bool", "PIN_OUT", "PIN_KIND_DATA") >>,
         7, {},
         ExecuteOnlyVTable)

\* lines 555-588
ini_get_desc ==
    NodeType("INI Get", "Config", "com.rune.example.config.ini_get",
         << PinDesc("Execute", "execution", "PIN_IN", "PIN_KIND_EXECUTION"),
            PinDesc("INI", "string", "PIN_IN", "PIN_KIND_DATA"),
            PinDesc("Section", "string", "PIN_IN", "PIN_KIND_DATA"),
            PinDesc("Key", "string", "PIN_IN", "PIN_KIND_DATA"),
            PinDesc("Done", "execution", "PIN_OUT", "PIN_KIND_EXECUTION"),
            PinDesc("Value", "string", "PIN_OUT", "PIN_KIND_DATA"),
            PinDesc("Found", "bool", "PIN_OUT", "PIN_KIND_DATA") >>,
         7, {},
         ExecuteOnlyVTable)

\* env_plugin.cpp lines 100-131
env_get_desc ==
    NodeType("Get Env Variable", "Environment", "com.rune.example.env.get_env",
         << PinDesc("Execute", "execution", "PIN_IN", "PIN_KIND_EXECUTION"),
            PinDesc("Name", "string", "PIN_IN", "PIN_KIND_DATA"),
            PinDesc("Done", "execution", "PIN_OUT", "PIN_KIND_EXECUTION"),
            PinDesc("Value", "string", "PIN_OUT", "PIN_KIND_DATA"),
            PinDesc("Exists", "bool", "PIN_OUT", "PIN_KIND_DATA") >>,
         5, {},
         ExecuteOnlyVTable)

\* env_plugin.cpp lines 154-184
plugin_settings_desc ==
    NodeType("Get Plugin Settings", "Environment", "com.rune.example.env.get_plugin_settings",
         << PinDesc("Execute", "execution", "PIN_IN", "PIN_KIND_EXECUTION"),
            PinDesc("PluginID", "string", "PIN_IN", "PIN_KIND_DATA"),
            PinDesc("Done", "execution", "PIN_OUT", "PIN_KIND_EXECUTION"),
            PinDesc("Settings", "json", "PIN_OUT", "PIN_KIND_DATA") >>,
         4, {},
         ExecuteOnlyVTable)

\* env_plugin.cpp lines 208-239
rune_setting_desc ==
    NodeType("Get RUNE Setting", "Environment", "com.rune.example.env.get_rune_setting",
         << PinDesc("Execute", "execution", "PIN_IN", "PIN_KIND_EXECUTION"),
            PinDesc("Setting", "string", "PIN_IN", "PIN_KIND_DATA"),
            PinDesc("Done", "execution", "PIN_OUT", "PIN_KIND_EXECUTION"),
            PinDesc("Value", "string", "PIN_OUT", "PIN_KIND_DATA"),
            PinDesc("Found", "bool", "PIN_OUT", "PIN_KIND_DATA") >>,
         5, {},
         ExecuteOnlyVTable)

\* The pins a descriptor declares: the first pin_count elements of its array.
DeclaredPins(desc) == SubSeq(desc.pins, 1, desc.pin_count)

\* Mutant: a registry that numbers a node type by its position in the table.
RegisterNodes_ReuseIds(registry, descs) ==
    registry \o [k \in DOMAIN descs |-> [descs[k] EXCEPT !.id = Len(registry) + k]]

\* reg->register_node(desc, vtbl) for each element of descs, in order: the
\* registry records what the plugins hand over and gives each node type the
\* NodeTypeId after the largest one it ever handed out (the plugins drop the
\* value returned).
RegisterNodes(registry, descs) ==
    LET used == {registry[i].id : i \in DOMAIN registry} \cup host.retired
        last == IF used = {} THEN 0 ELSE CHOOSE x \in used : \A y \in used : y <= x
    IN  registry \o [k \in DOMAIN descs |-> [descs[k] EXCEPT !.id = last + k]]

(* ------------------------- plugin lifecycle ---------------------------- *)

\* Mutant: a host that takes an on_load call that threw for a successful load.
on_load_ThrowIgnored ==
    /\ GraphIdle
    /\ host.load \in {"unloaded", "failed"}
    /\ g_host' = TRUE
    /\ \E value \in TestFlagValues :
         /\ host' = [host EXCEPT !.load = "loaded"]
         /\ ev' = IF IsTestFlagEnabled(TRUE, value)
                  THEN Ev("throw", "on_load", 0, 0, "")
                  ELSE Ev("log", "on_load", 0, LOG_LEVEL_INFO, "return true")
    /\ g' = GIdle("on_load")
    /\ UNCHANGED <<tinst, dinst, timers, t, hist, m>>

on_load ==
    /\ GraphIdle
    /\ host.load \in {"unloaded", "failed"}
    /\ g_host' = TRUE
    /\ \E value \in TestFlagValues :
         IF IsTestFlagEnabled(TRUE, value)
         THEN /\ host' = [host EXCEPT !.load = "failed"]
              /\ ev' = Ev("throw", "on_load", 0, 0, "")
         ELSE /\ host' = [host EXCEPT !.load = "loaded"]
              /\ ev' = Ev("log", "on_load", 0, LOG_LEVEL_INFO, "return true")
    /\ g' = GIdle("on_load")
    /\ UNCHANGED <<tinst, dinst, timers, t, hist, m>>

\* Mutant: on_register raising its test fault after the first register_node call.
on_register_ThrowBetween ==
    /\ GraphIdle
    /\ host.load = "loaded"
    /\ host.registered = {}
    /\ \E value \in TestFlagValues :
         IF g_host /\ IsTestFlagEnabled(g_host, value)
         THEN /\ host' = [host EXCEPT !.registered = {timer_desc.unique_name},
                                       !.registry = RegisterNodes(@, <<timer_desc>>)]
              /\ ev' = Ev("throw", "on_register", 0, 0, "")
         ELSE /\ host' = [host EXCEPT !.registered = {timer_desc.unique_name,
                                                      delay_desc.unique_name},
                                       !.registry = RegisterNodes(@, <<timer_desc, delay_desc>>)]
              /\ ev' = IF g_host THEN Ev("log", "on_register", 0, LOG_LEVEL_INFO, "")
                       ELSE Ev("return", "on_register", 0, 0, "")
    /\ g' = GIdle("on_register")
    /\ UNCHANGED <<g_host, tinst, dinst, timers, t, hist, m>>

on_register ==
    /\ GraphIdle
    /\ host.load = "loaded"
    /\ host.registered = {}
    /\ \E value \in TestFlagValues :
         IF g_host /\ IsTestFlagEnabled(g_host, value)
         THEN /\ host' = host
              /\ ev' = Ev("throw", "on_register", 0, 0, "")
         ELSE /\ host' = [host EXCEPT !.registered = {timer_desc.unique_name,
                                                      delay_desc.unique_name},
                                       !.registry = RegisterNodes(@, <<timer_desc, delay_desc>>)]
              /\ ev' = IF g_host THEN Ev("log", "on_register", 0, LOG_LEVEL_INFO, "")
                       ELSE Ev("return", "on_register", 0, 0, "")
    /\ g' = GIdle("on_register")
    /\ UNCHANGED <<g_host, tinst, dinst, timers, t, hist, m>>

on_unload ==
    /\ GraphIdle
    /\ host.load = "loaded"
    /\ ev' = IF g_host THEN Ev("log", "on_unload", 0, LOG_LEVEL_INFO, "")
             ELSE Ev("return", "on_unload", 0, 0, "")
    /\ g_host' = FALSE
    /\ host' = [host EXCEPT !.load = "unloaded"]
    /\ g' = GIdle("on_unload")
    /\ UNCHANGED <<tinst, dinst, timers, t, hist, m>>

(* --------------------------- Timer Event node -------------------------- *)

TimerCallable == tinst.alloc \in {"live", "null"}

timer_create ==
    /\ GraphIdle
    /\ "com.rune.example.timer.event" \in host.registered
    /\ tinst.alloc = "none"
    /\ \E mallocOk \in BOOLEAN :
         tinst' = IF mallocOk
                  THEN [alloc |-> "live", timer_id |-> 0, ctx |-> 0, active |-> FALSE,
                        interval_ms |-> U32(0, DefaultIntervalMs), tick_count |-> 0]
                  ELSE [tinst EXCEPT !.alloc = "null"]
    /\ g' = GIdle("timer_create")
    /\ ev' = Ev("return", "timer_create", 0, 0, "")
    /\ UNCHANGED <<g_host, dinst, timers, host, t, hist, m>>

\* What the host and the history record when timer_stop_listening returns.
TimerStopReturns ==
    /\ host' = [host EXCEPT !.T = "Idle"]
    /\ hist' = [hist EXCEPT !.quiescedT = TRUE, !.expired = @ \cup CtxsOf("T")]
    /\ g' = GIdle("timer_stop_listening")

\* lines 88-103: the null checks and the IntervalMs property.
TimerStartListening1(props) ==
    /\ GraphIdle
    /\ TimerCallable
    /\ host.T = "Idle"
    /\ NextCtx <= MaxCtx
    /\ host' = [host EXCEPT !.ctxs = Append(@, "T")]
    /\ hist' = [hist EXCEPT !.everStartedT = TRUE, !.tFirings = 0]
    /\ \E prop \in props :
         IF tinst.alloc = "null" \/ ~g_host
         THEN /\ g' = GIdle("timer_start_listening")
              /\ ev' = Ev("return", "timer_start_listening", 0, 0, "")
              /\ tinst' = tinst
         ELSE /\ LET v == IF prop # <<>> THEN ToUint32(atoi(prop)) ELSE tinst.interval_ms
                 IN tinst' = [tinst EXCEPT !.interval_ms =
                                  IF v = U32Zero THEN U32(0, DefaultIntervalMs) ELSE v]
              /\ g' = [g EXCEPT !.pc = "timer_start_listening:2", !.ctx = NextCtx,
                                !.arg = prop]
              /\ ev' = Ev("get_property", "timer_start_listening", NextCtx, 0, "IntervalMs")
    /\ UNCHANGED <<g_host, dinst, timers, t, m>>

timer_start_listening_1 == TimerStartListening1(StartProps)

\* timer_start_listening called with an unset, numeric, zero, negative or
\* non-numeric IntervalMs property.
timer_start_listening_1_any ==
    TimerStartListening1({<<>>, <<"5">>, <<"7", "0">>, <<"0">>, <<"-", "5">>, <<"x">>})

\* line 106: inst->ctx = ctx
timer_start_listening_2 ==
    /\ g.pc = "timer_start_listening:2"
    /\ tinst' = [tinst EXCEPT !.ctx = g.ctx]
    /\ g' = [g EXCEPT !.pc = "timer_start_listening:3"]
    /\ ev' = NoEv
    /\ UNCHANGED <<g_host, dinst, timers, host, t, hist, m>>

\* line 107: inst->active = true
timer_start_listening_3 ==
    /\ g.pc = "timer_start_listening:3"
    /\ tinst' = [tinst EXCEPT !.active = TRUE]
    /\ g' = [g EXCEPT !.pc = "timer_start_listening:4"]
    /\ ev' = NoEv
    /\ UNCHANGED <<g_host, dinst, timers, host, t, hist, m>>

\* line 108: inst->tick_count = 0
timer_start_listening_4 ==
    /\ g.pc = "timer_start_listening:4"
    /\ tinst' = [tinst EXCEPT !.tick_count = 0]
    /\ g' = [g EXCEPT !.pc = "timer_start_listening:5"]
    /\ ev' = NoEv
    /\ UNCHANGED <<g_host, dinst, timers, host, t, hist, m>>

\* line 111, the call: g_host->create_timer(inst->interval_ms, timer_callback, inst)
timer_start_listening_5 ==
    /\ g.pc = "timer_start_listening:5"
    /\ \E id \in CreateTimerResults :
         /\ timers' = TimersAfterCreate(id, "timer_callback")
         /\ g' = [g EXCEPT !.pc = "timer_start_listening:6", !.ret = id]
         /\ ev' = Ev("create_timer", "timer_start_listening", 0, id, "timer_callback")
         /\ hist' = [hist EXCEPT !.interval = tinst.interval_ms,
                                 !.quiescedT = IF id # 0 THEN FALSE ELSE @]
    /\ UNCHANGED <<g_host, tinst, dinst, host, t, m>>

\* lines 111-119: the store to inst->timer_id, the test and the return.
timer_start_listening_6 ==
    /\ g.pc = "timer_start_listening:6"
    /\ tinst' = [tinst EXCEPT !.timer_id = g.ret]
    /\ IF g.ret = 0
       THEN /\ ev' = Ev("log", "timer_start_listening", 0, LOG_LEVEL_ERROR, "return false")
            /\ UNCHANGED <<host, hist>>
       ELSE /\ ev' = Ev("log_formatted", "timer_start_listening", 0, LOG_LEVEL_INFO, "return true")
            /\ host' = [host EXCEPT !.T = "Listening"]
            /\ hist' = hist
    /\ g' = GIdle("timer_start_listening")
    /\ UNCHANGED <<g_host, dinst, timers, t, m>>

\* lines 122-128: the null check and inst->active = false
timer_stop_listening_1 ==
    /\ GraphIdle
    /\ TimerCallable
    /\ IF tinst.alloc = "null"
       THEN /\ TimerStopReturns
            /\ ev' = Ev("return", "timer_stop_listening", 0, 0, "")
            /\ tinst' = tinst
       ELSE /\ tinst' = [tinst EXCEPT !.active = FALSE]
            /\ g' = [g EXCEPT !.pc = "timer_stop_listening:2"]
            /\ ev' = NoEv
            /\ UNCHANGED <<host, hist>>
    /\ UNCHANGED <<g_host, dinst, timers, t, m>>

\* lines 130-131: the test and the call g_host->destroy_timer(inst->timer_id)
timer_stop_listening_2 ==
    /\ g.pc = "timer_stop_listening:2"
    /\ IF tinst.timer_id # 0 /\ g_host
       THEN /\ timers' = TimersAfterDestroy(tinst.timer_id)
            /\ g' = [g EXCEPT !.pc = "timer_stop_listening:3", !.ret = tinst.timer_id]
            /\ ev' = Ev("destroy_timer", "timer_stop_listening", 0, tinst.timer_id, "")
            /\ UNCHANGED <<host, hist>>
       ELSE /\ TimerStopReturns
            /\ ev' = Ev("return", "timer_stop_listening", 0, 0, "")
            /\ timers' = timers
    /\ UNCHANGED <<g_host, tinst, dinst, t, m>>

\* Mutant: timer_stop_listening without "inst->timer_id = 0" after destroy_timer.
timer_stop_listening_3_KeepsTimerId ==
    /\ g.pc = "timer_stop_listening:3"
    /\ DestroyTimerMayReturn(g.ret)
    /\ tinst' = tinst
    /\ ev' = Ev("log", "timer_stop_listening", 0, LOG_LEVEL_INFO, "Timer stopped")
    /\ TimerStopReturns
    /\ UNCHANGED <<g_host, dinst, timers, t, m>>

\* lines 131-134: destroy_timer returns, inst->timer_id = 0, the log call
timer_stop_listening_3 ==
    /\ g.pc = "timer_stop_listening:3"
    /\ DestroyTimerMayReturn(g.ret)
    /\ tinst' = [tinst EXCEPT !.timer_id = 0]
    /\ ev' = Ev("log", "timer_stop_listening", 0, LOG_LEVEL_INFO, "Timer stopped")
    /\ TimerStopReturns
    /\ UNCHANGED <<g_host, dinst, timers, t, m>>

\* lines 137-142
timer_execute ==
    /\ GraphIdle
    /\ TimerCallable
    /\ g' = GIdle("timer_execute")
    /\ ev' = Ev("return", "timer_execute", 0, 1, "")
    /\ UNCHANGED <<g_host, tinst, dinst, timers, host, t, hist, m>>

\* free(inst) and the return of timer_destroy
TimerFreed ==
    /\ tinst' = [tinst EXCEPT !.alloc = "freed"]
    /\ g' = GIdle("timer_destroy")

\* lines 78-82: the tests and the call g_host->destroy_timer(inst->timer_id)
timer_destroy_1 ==
    /\ GraphIdle
    /\ TimerCallable
    /\ host.T = "Idle"
    /\ IF tinst.alloc = "null"
       THEN /\ tinst' = [tinst EXCEPT !.alloc = "gone"]
            /\ g' = GIdle("timer_destroy")
            /\ ev' = Ev("return", "timer_destroy", 0, 0, "")
            /\ timers' = timers
       ELSE IF tinst.timer_id # 0 /\ g_host
       THEN /\ timers' = TimersAfterDestroy(tinst.timer_id)
            /\ g' = [g EXCEPT !.pc = "timer_destroy:2", !.ret = tinst.timer_id]
            /\ ev' = Ev("destroy_timer", "timer_destroy", 0, tinst.timer_id, "")
            /\ tinst' = tinst
       ELSE /\ TimerFreed
            /\ ev' = Ev("return", "timer_destroy", 0, 0, "")
            /\ timers' = timers
    /\ UNCHANGED <<g_host, dinst, host, t, hist, m>>

\* lines 82-85: destroy_timer returns, free(inst)
timer_destroy_2 ==
    /\ g.pc = "timer_destroy:2"
    /\ DestroyTimerMayReturn(g.ret)
    /\ TimerFreed
    /\ ev' = Ev("return", "timer_destroy", 0, 0, "")
    /\ UNCHANGED <<g_host, dinst, timers, host, t, hist, m>>

(* ------------------------ timer thread: firing ------------------------- *)

\* The timing thread invokes the callback of a registered timer.
host_fire_timer ==
    /\ t.pc = "idle"
    /\ \E r \in timers :
         /\ r.cb = "timer_callback" => tinst.tick_count < MaxTicks
         /\ t' = [pc |-> IF r.cb = "timer_callback" THEN "timer_callback:1"
                         ELSE "delay_callback:1",
                  id |-> r.id, arg |-> 0]
         /\ hist' = [hist EXCEPT !.fired = IF r.cb = "delay_callback" THEN @ \cup {r.id} ELSE @]
    /\ ev' = NoEv
    /\ UNCHANGED <<g_host, tinst, dinst, timers, host, g, m>>

StopLabels == {"timer_stop_listening:2", "timer_stop_listening:3"}

\* lines 52-55: if (!inst || !inst->active || !inst->ctx) return;
timer_callback_1 ==
    /\ t.pc = "timer_callback:1"
    /\ IF tinst.active /\ tinst.ctx # 0
       THEN /\ t' = [t EXCEPT !.pc = "timer_callback:2"]
            /\ hist' = [hist EXCEPT !.tFirings = @ + 1, !.cbN = hist.tFirings + 1,
                           !.cbListening = (host.T = "Listening" /\ g.pc \notin StopLabels)]
       ELSE /\ t' = [t EXCEPT !.pc = "timer_callback:5"]
            /\ hist' = [hist EXCEPT
                           !.cbListening = (host.T = "Listening" /\ g.pc \notin StopLabels)]
    /\ ev' = NoEv
    /\ UNCHANGED <<g_host, tinst, dinst, timers, host, g, m>>

\* line 57: inst->tick_count++
timer_callback_2 ==
    /\ t.pc = "timer_callback:2"
    /\ tinst' = [tinst EXCEPT !.tick_count = @ + 1]
    /\ t' = [t EXCEPT !.pc = "timer_callback:3"]
    /\ ev' = NoEv
    /\ UNCHANGED <<g_host, dinst, timers, host, g, hist, m>>

\* line 60: inst->ctx->set_output_int(inst->ctx, "TickCount", inst->tick_count)
timer_callback_3 ==
    /\ t.pc = "timer_callback:3"
    /\ ev' = Ev("set_output_int", "timer_callback", tinst.ctx, tinst.tick_count, "TickCount")
    /\ hist' = [hist EXCEPT !.cbCalls = Append(@, ev')]
    /\ t' = [t EXCEPT !.pc = "timer_callback:4"]
    /\ UNCHANGED <<g_host, tinst, dinst, timers, host, g, m>>

\* line 63: inst->ctx->trigger_output(inst->ctx, "OnTimer")
timer_callback_4 ==
    /\ t.pc = "timer_callback:4"
    /\ ev' = Ev("trigger_output", "timer_callback", tinst.ctx, 0, "OnTimer")
    /\ hist' = [hist EXCEPT !.cbCalls = Append(@, ev')]
    /\ t' = [t EXCEPT !.pc = "timer_callback:5"]
    /\ UNCHANGED <<g_host, tinst, dinst, timers, host, g, m>>

\* lines 54 and 64: timer_callback returns to the timing thread
timer_callback_5 ==
    /\ t.pc = "timer_callback:5"
    /\ t' = TIdle
    /\ hist' = [hist EXCEPT !.cbListening = FALSE, !.cbN = 0, !.cbCalls = <<>>]
    /\ ev' = NoEv
    /\ UNCHANGED <<g_host, tinst, dinst, timers, host, g, m>>

(* ------------------------------ Delay node ----------------------------- *)

DelayCallable == dinst.alloc \in {"live", "null"}

delay_create ==
    /\ GraphIdle
    /\ "com.rune.example.timer.delay" \in host.registered
    /\ dinst.alloc = "none"
    /\ \E mallocOk \in BOOLEAN :
         dinst' = IF mallocOk
                  THEN [alloc |-> "live", timer_id |-> 0, ctx |-> 0, completed |-> FALSE]
                  ELSE [dinst EXCEPT !.alloc = "null"]
    /\ g' = GIdle("delay_create")
    /\ ev' = Ev("return", "delay_create", 0, 0, "")
    /\ UNCHANGED <<g_host, tinst, timers, host, t, hist, m>>

\* lines 226-240: the null checks, the test flag and the DelayMs input, which
\* the host takes from inputs; g.arg holds delay_ms as read.
DelayExecute1(inputs) ==
    /\ GraphIdle
    /\ DelayCallable
    /\ host.D = "Idle"
    /\ NextCtx <= MaxCtx
    /\ host' = [host EXCEPT !.ctxs = Append(@, "D")]
    /\ hist' = [hist EXCEPT !.dReported = FALSE]
    /\ IF dinst.alloc = "null" \/ ~g_host
       THEN /\ g' = GIdle("delay_execute")
            /\ ev' = Ev("return", "delay_execute", 0, 0, "")
       ELSE \E value \in TestFlagValues :
              IF IsTestFlagEnabled(g_host, value)
              THEN /\ g' = GIdle("delay_execute")
                   /\ ev' = Ev("throw", "delay_execute", 0, 0, "")
              ELSE \E input \in inputs :
                     /\ g' = [g EXCEPT !.pc = "delay_execute:2", !.ctx = NextCtx,
                                       !.arg = input]
                     /\ ev' = Ev("get_input_int", "delay_execute", NextCtx, 0, "DelayMs")
    /\ UNCHANGED <<g_host, tinst, dinst, timers, t, m>>

delay_execute_1 == DelayExecute1(DelayInputs)

\* delay_execute called with DelayMs values from all over the int64_t range.
delay_execute_1_any ==
    DelayExecute1([l3 : {0, Limb \div 2 - 1, Limb \div 2, Limb - 1}, l2 : {0, 1, Limb - 1},
                   l1 : {0, Limb - 1}, l0 : {0, 1, DefaultDelayMs}])

\* line 245: inst->ctx = ctx
delay_execute_2 ==
    /\ g.pc = "delay_execute:2"
    /\ dinst' = [dinst EXCEPT !.ctx = g.ctx]
    /\ g' = [g EXCEPT !.pc = "delay_execute:3"]
    /\ ev' = NoEv
    /\ hist' = [hist EXCEPT !.dTrigCtx = 0]
    /\ UNCHANGED <<g_host, tinst, timers, host, t, m>>

\* line 246: inst->completed = false
delay_execute_3 ==
    /\ g.pc = "delay_execute:3"
    /\ dinst' = [dinst EXCEPT !.completed = FALSE]
    /\ g' = [g EXCEPT !.pc = "delay_execute:4"]
    /\ ev' = NoEv
    /\ UNCHANGED <<g_host, tinst, timers, host, t, hist, m>>

\* lines 241-249, the call:
\* g_host->create_timer((uint32_t)delay_ms, delay_callback, inst)
delay_execute_4 ==
    /\ g.pc = "delay_execute:4"
    /\ \E id \in CreateTimerResults :
         /\ timers' = TimersAfterCreate(id, "delay_callback")
         /\ g' = [g EXCEPT !.pc = "delay_execute:5", !.ret = id]
         /\ ev' = Ev("create_timer", "delay_execute", 0, id, "delay_callback")
    /\ hist' = [hist EXCEPT !.interval = DelayMsToInterval(g.arg)]
    /\ UNCHANGED <<g_host, tinst, dinst, host, t, m>>

\* Mutant: delay_execute without the test of the handle create_timer returned.
delay_execute_5_Unchecked ==
    /\ g.pc = "delay_execute:5"
    /\ dinst' = [dinst EXCEPT !.timer_id = g.ret]
    /\ ev' = Ev("log_formatted", "delay_execute", 0, LOG_LEVEL_DEBUG, "return true")
    /\ host' = [host EXCEPT !.D = "Awaiting"]
    /\ hist' = [hist EXCEPT !.dTimer = g.ret]
    /\ g' = GIdle("delay_execute")
    /\ UNCHANGED <<g_host, tinst, timers, t, m>>

\* lines 249-257: the store to inst->timer_id, the test and the return.
delay_execute_5 ==
    /\ g.pc = "delay_execute:5"
    /\ dinst' = [dinst EXCEPT !.timer_id = g.ret]
    /\ IF g.ret = 0
       THEN /\ ev' = Ev("log", "delay_execute", 0, LOG_LEVEL_ERROR, "return false")
            /\ UNCHANGED <<host, hist>>
       ELSE /\ ev' = Ev("log_formatted", "delay_execute", 0, LOG_LEVEL_DEBUG, "return true")
            /\ host' = [host EXCEPT !.D = "Awaiting"]
            /\ hist' = [hist EXCEPT !.dTimer = g.ret]
    /\ g' = GIdle("delay_execute")
    /\ UNCHANGED <<g_host, tinst, timers, t, m>>

\* The set_error calls delay_execute makes on its context on any path: none.
DelayExecuteErrors == <<>>

\* delay_execute has just returned v (0 = false, 1 = true): its last boundary
\* event is a plain return or the log call that precedes the return statement.
DelayExecuteReturned(v) ==
    /\ ev.by = "delay_execute"
    /\ \/ ev.call = "return" /\ ev.arg = v
       \/ ev.call = "log" /\ v = 0
       \/ ev.call = "log_formatted" /\ v = 1

\* The value delay_is_complete returns: inst ? inst->completed : true
DelayIsCompleteResult == IF dinst.alloc = "null" THEN TRUE ELSE dinst.completed

\* Mutant: delay_is_complete consumes the flag (reports completion once only).
delay_is_complete_Consuming ==
    /\ GraphIdle
    /\ DelayCallable
    /\ LET result == DelayIsCompleteResult IN
         /\ ev' = Ev("return", "delay_is_complete", 0, IF result THEN 1 ELSE 0, host.D)
         /\ host' = [host EXCEPT !.D = IF result THEN "Idle" ELSE @]
         /\ hist' = [hist EXCEPT !.dReported = @ \/ result,
                                 !.expired = IF result THEN @ \cup CtxsOf("D") ELSE @]
    /\ dinst' = [dinst EXCEPT !.completed = FALSE]
    /\ g' = GIdle("delay_is_complete")
    /\ UNCHANGED <<g_host, tinst, timers, t, m>>

\* lines 260-263; ev.str records the state the scheduler had the node in.
delay_is_complete ==
    /\ GraphIdle
    /\ DelayCallable
    /\ LET result == DelayIsCompleteResult IN
         /\ ev' = Ev("return", "delay_is_complete", 0, IF result THEN 1 ELSE 0, host.D)
         /\ host' = [host EXCEPT !.D = IF result THEN "Idle" ELSE @]
         /\ hist' = [hist EXCEPT !.dReported = @ \/ result,
                                 !.expired = IF result THEN @ \cup CtxsOf("D") ELSE @]
    /\ g' = GIdle("delay_is_complete")
    /\ UNCHANGED <<g_host, tinst, dinst, timers, t, m>>

\* free(inst) and the return of delay_destroy
DelayFreed ==
    /\ dinst' = [dinst EXCEPT !.alloc = "freed"]
    /\ g' = GIdle("delay_destroy")

\* lines 216-220: the tests and the call g_host->destroy_timer(inst->timer_id)
delay_destroy_1 ==
    /\ GraphIdle
    /\ DelayCallable
    /\ IF dinst.alloc = "null"
       THEN /\ dinst' = [dinst EXCEPT !.alloc = "gone"]
            /\ g' = GIdle("delay_destroy")
            /\ ev' = Ev("return", "delay_destroy", 0, 0, "")
            /\ timers' = timers
       ELSE IF dinst.timer_id # 0 /\ g_host
       THEN /\ timers' = TimersAfterDestroy(dinst.timer_id)
            /\ g' = [g EXCEPT !.pc = "delay_destroy:2", !.ret = dinst.timer_id]
            /\ ev' = Ev("destroy_timer", "delay_destroy", 0, dinst.timer_id, "")
            /\ dinst' = dinst
       ELSE /\ DelayFreed
            /\ ev' = Ev("return", "delay_destroy", 0, 0, "")
            /\ timers' = timers
    /\ UNCHANGED <<g_host, tinst, host, t, hist, m>>

\* lines 220-223: destroy_timer returns, free(inst)
delay_destroy_2 ==
    /\ g.pc = "delay_destroy:2"
    /\ DestroyTimerMayReturn(g.ret)
    /\ DelayFreed
    /\ ev' = Ev("return", "delay_destroy", 0, 0, "")
    /\ UNCHANGED <<g_host, tinst, timers, host, t, hist, m>>

\* lines 189-192: if (!inst || !inst->ctx) return;
delay_callback_1 ==
    /\ t.pc = "delay_callback:1"
    /\ t' = IF dinst.ctx # 0 THEN [t EXCEPT !.pc = "delay_callback:2"] ELSE TIdle
    /\ ev' = NoEv
    /\ UNCHANGED <<g_host, tinst, dinst, timers, host, g, hist, m>>

\* line 194: inst->completed = true
delay_callback_2 ==
    /\ t.pc = "delay_callback:2"
    /\ dinst' = [dinst EXCEPT !.completed = TRUE]
    /\ t' = [t EXCEPT !.pc = "delay_callback:3"]
    /\ ev' = NoEv
    /\ UNCHANGED <<g_host, tinst, timers, host, g, hist, m>>

\* line 197: inst->ctx->trigger_output(inst->ctx, "OnComplete")
delay_callback_3 ==
    /\ t.pc = "delay_callback:3"
    /\ ev' = Ev("trigger_output", "delay_callback", dinst.ctx, 0, "OnComplete")
    /\ t' = [t EXCEPT !.pc = "delay_callback:4"]
    /\ hist' = [hist EXCEPT !.dTrigCtx = dinst.ctx]
    /\ UNCHANGED <<g_host, tinst, dinst, timers, host, g, m>>

\* line 200: if (inst->timer_id && g_host)
delay_callback_4 ==
    /\ t.pc = "delay_callback:4"
    /\ t' = IF dinst.timer_id # 0 /\ g_host
            THEN [t EXCEPT !.pc = "delay_callback:5", !.arg = dinst.timer_id]
            ELSE TIdle
    /\ ev' = NoEv
    /\ UNCHANGED <<g_host, tinst, dinst, timers, host, g, hist, m>>

\* line 201: g_host->destroy_timer(inst->timer_id).  g_host and inst->timer_id
\* are read again without synchronisation: the call sees the value tested on
\* line 200 or the value stored since, and a g_host nulled since is either
\* dereferenced (a crash) or replaced by the pointer loaded for the test.
delay_callback_5 ==
    /\ t.pc = "delay_callback:5"
    /\ \/ \E id \in {t.arg, dinst.timer_id} :
            /\ timers' = TimersAfterDestroy(id)
            /\ ev' = Ev("destroy_timer", "delay_callback", 0, id, "")
            /\ t' = [t EXCEPT !.pc = "delay_callback:6", !.arg = 0]
       \/ /\ ~g_host
          /\ timers' = timers
          /\ ev' = Ev("null_dereference", "delay_callback", 0, 0, "g_host")
          /\ t' = [t EXCEPT !.pc = "crashed"]
    /\ UNCHANGED <<g_host, tinst, dinst, host, g, hist, m>>

\* line 202: inst->timer_id = 0, and the return
delay_callback_6 ==
    /\ t.pc = "delay_callback:6"
    /\ dinst' = [dinst EXCEPT !.timer_id = 0]
    /\ t' = TIdle
    /\ ev' = NoEv
    /\ UNCHANGED <<g_host, tinst, timers, host, g, hist, m>>

(* ---------------------- accesses to instance memory -------------------- *)

TimerCallbackLabels ==
    {"timer_callback:1", "timer_callback:2", "timer_callback:3", "timer_callback:4"}
DelayCallbackLabels ==
    {"delay_callback:1", "delay_callback:2", "delay_callback:3", "delay_callback:4",
     "delay_callback:5", "delay_callback:6"}

\* The next statement of the running callback dereferences a freed instance.
CallbackOnFreedInstance ==
    \/ t.pc \in TimerCallbackLabels /\ tinst.alloc = "freed"
    \/ t.pc \in DelayCallbackLabels /\ dinst.alloc = "freed"

\* A use of freed memory is undefined: besides reading the stale fields (the
\* callback actions above) the access may fault.
callback_use_after_free_fault ==
    /\ CallbackOnFreedInstance
    /\ t' = [t EXCEPT !.pc = "crashed"]
    /\ ev' = Ev("use_after_free", "callback", 0, 0, "")
    /\ UNCHANGED <<g_host, tinst, dinst, timers, host, g, hist, m>>

NextTimerNode ==
    \/ on_load \/ on_register \/ on_unload
    \/ timer_create
    \/ timer_start_listening_1 \/ timer_start_listening_2 \/ timer_start_listening_3
    \/ timer_start_listening_4 \/ timer_start_listening_5 \/ timer_start_listening_6
    \/ timer_stop_listening_1 \/ timer_stop_listening_2 \/ timer_stop_listening_3
    \/ timer_execute
    \/ timer_destroy_1 \/ timer_destroy_2
    \/ host_fire_timer
    \/ timer_callback_1 \/ timer_callback_2 \/ timer_callback_3 \/ timer_callback_4
    \/ timer_callback_5
    \/ callback_use_after_free_fault

SpecTimerNode == Init /\ [][NextTimerNode]_vars

\* start_listening and stop_listening on the graph thread alone, over the
\* values of the IntervalMs property.
NextTimerInterval ==
    \/ on_load \/ on_register
    \/ timer_create
    \/ timer_start_listening_1_any \/ timer_start_listening_2 \/ timer_start_listening_3
    \/ timer_start_listening_4 \/ timer_start_listening_5 \/ timer_start_listening_6
    \/ timer_stop_listening_1 \/ timer_stop_listening_2 \/ timer_stop_listening_3

SpecTimerInterval == Init /\ [][NextTimerInterval]_vars

NextDelayNode ==
    \/ on_load \/ on_register \/ on_unload
    \/ delay_create
    \/ delay_execute_1 \/ delay_execute_2 \/ delay_execute_3
    \/ delay_execute_4 \/ delay_execute_5
    \/ delay_is_complete
    \/ delay_destroy_1 \/ delay_destroy_2
    \/ host_fire_timer
    \/ delay_callback_1 \/ delay_callback_2 \/ delay_callback_3
    \/ delay_callback_4 \/ delay_callback_5 \/ delay_callback_6
    \/ callback_use_after_free_fault

SpecDelayNode == Init /\ [][NextDelayNode]_vars

\* The Delay node in a host that never unloads the plugin.
NextDelayNodeLoaded ==
    \/ on_load \/ on_register
    \/ delay_create
    \/ delay_execute_1 \/ delay_execute_2 \/ delay_execute_3
    \/ delay_execute_4 \/ delay_execute_5
    \/ delay_is_complete
    \/ delay_destroy_1 \/ delay_destroy_2
    \/ host_fire_timer
    \/ delay_callback_1 \/ delay_callback_2 \/ delay_callback_3
    \/ delay_callback_4 \/ delay_callback_5 \/ delay_callback_6
    \/ callback_use_after_free_fault

SpecDelayNodeLoaded == Init /\ [][NextDelayNodeLoaded]_vars

\* delay_execute on the graph thread alone, over the range of its DelayMs input.
NextDelayInterval ==
    \/ on_load \/ on_register
    \/ delay_create
    \/ delay_execute_1_any \/ delay_execute_2 \/ delay_execute_3
    \/ delay_execute_4 \/ delay_execute_5

SpecDelayInterval == Init /\ [][NextDelayInterval]_vars

\* Both nodes of the timer plugin in a host that never unloads the plugin.  With
\* g_host never nulled, stop_listening has zeroed timer_id before the host
\* destroys a Timer Event instance, so timer_destroy takes its free-only path.
NextTimerPluginLoaded ==
    \/ on_load \/ on_register
    \/ timer_create
    \/ timer_start_listening_1 \/ timer_start_listening_2 \/ timer_start_listening_3
    \/ timer_start_listening_4 \/ timer_start_listening_5 \/ timer_start_listening_6
    \/ timer_stop_listening_1 \/ timer_stop_listening_2 \/ timer_stop_listening_3
    \/ timer_execute
    \/ timer_destroy_1
    \/ timer_callback_1 \/ timer_callback_2 \/ timer_callback_3 \/ timer_callback_4
    \/ timer_callback_5
    \/ delay_create
    \/ delay_execute_1 \/ delay_execute_2 \/ delay_execute_3
    \/ delay_execute_4 \/ delay_execute_5
    \/ delay_is_complete
    \/ delay_destroy_1 \/ delay_destroy_2
    \/ host_fire_timer
    \/ delay_callback_1 \/ delay_callback_2 \/ delay_callback_3
    \/ delay_callback_4 \/ delay_callback_5 \/ delay_callback_6
    \/ callback_use_after_free_fault

SpecTimerPluginLoaded == Init /\ [][NextTimerPluginLoaded]_vars

(* ------------------------- unsynchronised accesses --------------------- *)

\* An access: <<instance, field, mode>>, mode "r" or "w"; free() writes "*".
\* Fields the next statement of the graph thread accesses.  Between calls the
\* next statement is the first one of any call the host may make now.
GraphAccesses ==
    CASE g.pc = "idle" ->
           (IF ENABLED timer_start_listening_1 /\ tinst.alloc = "live" /\ g_host
              THEN {<<"T", "interval_ms", "w">>} ELSE {})
           \cup (IF ENABLED timer_stop_listening_1 /\ tinst.alloc = "live"
              THEN {<<"T", "active", "w">>} ELSE {})
           \cup (IF ENABLED timer_destroy_1 /\ tinst.alloc = "live"
              THEN {<<"T", "timer_id", "r">>}
                   \cup (IF tinst.timer_id # 0 /\ g_host THEN {} ELSE {<<"T", "*", "w">>})
              ELSE {})
           \cup (IF ENABLED delay_is_complete /\ dinst.alloc = "live"
              THEN {<<"D", "completed", "r">>} ELSE {})
           \cup (IF ENABLED delay_destroy_1 /\ dinst.alloc = "live"
              THEN {<<"D", "timer_id", "r">>}
                   \cup (IF dinst.timer_id # 0 /\ g_host THEN {} ELSE {<<"D", "*", "w">>})
              ELSE {})
      [] g.pc = "timer_start_listening:2" -> {<<"T", "ctx", "w">>}
      [] g.pc = "timer_start_listening:3" -> {<<"T", "active", "w">>}
      [] g.pc = "timer_start_listening:4" -> {<<"T", "tick_count", "w">>}
      [] g.pc = "timer_start_listening:5" -> {<<"T", "interval_ms", "r">>}
      [] g.pc = "timer_start_listening:6" -> {<<"T", "timer_id", "w">>}
      [] g.pc = "timer_stop_listening:2" -> {<<"T", "timer_id", "r">>}
      [] g.pc = "timer_stop_listening:3" ->
           IF DestroyTimerMayReturn(g.ret) THEN {<<"T", "timer_id", "w">>} ELSE {}
      [] g.pc = "timer_destroy:2" ->
           IF DestroyTimerMayReturn(g.ret) THEN {<<"T", "*", "w">>} ELSE {}
      [] g.pc = "delay_execute:2" -> {<<"D", "ctx", "w">>}
      [] g.pc = "delay_execute:3" -> {<<"D", "completed", "w">>}
      [] g.pc = "delay_execute:5" -> {<<"D", "timer_id", "w">>}
      [] g.pc = "delay_destroy:2" ->
           IF DestroyTimerMayReturn(g.ret) THEN {<<"D", "*", "w">>} ELSE {}
      [] OTHER -> {}

\* Fields the next statement of the running timer callback accesses.
CallbackAccesses ==
    CASE t.pc = "timer_callback:1" -> {<<"T", "active", "r">>, <<"T", "ctx", "r">>}
      [] t.pc = "timer_callback:2" -> {<<"T", "tick_count", "w">>}
      [] t.pc = "timer_callback:3" -> {<<"T", "ctx", "r">>, <<"T", "tick_count", "r">>}
      [] t.pc = "timer_callback:4" -> {<<"T", "ctx", "r">>}
      [] t.pc = "delay_callback:1" -> {<<"D", "ctx", "r">>}
      [] t.pc = "delay_callback:2" -> {<<"D", "completed", "w">>}
      [] t.pc = "delay_callback:3" -> {<<"D", "ctx", "r">>}
      [] t.pc = "delay_callback:4" -> {<<"D", "timer_id", "r">>}
      [] t.pc = "delay_callback:5" -> {<<"D", "timer_id", "r">>}
      [] t.pc = "delay_callback:6" -> {<<"D", "timer_id", "w">>}
      [] OTHER -> {}

\* Two accesses conflict: same instance, same field (free covers all), one writes.
Conflict(a, b) ==
    /\ a[1] = b[1]
    /\ a[2] = b[2] \/ a[2] = "*" \/ b[2] = "*"
    /\ a[3] = "w" \/ b[3] = "w"

\* Both threads are about to make conflicting accesses and nothing orders them.
DataRace == \E a \in GraphAccesses : \E b \in CallbackAccesses : Conflict(a, b)

(* ------------------------------ math plugin ---------------------------- *)

\* A double is kept as an exact fraction n/d in lowest terms with d > 0;
\* d = 0 stands for an infinity of the sign of n.
RECURSIVE Gcd(_, _)
Gcd(x, y) == IF y = 0 THEN x ELSE Gcd(y, x % y)
Abs(x) == IF x < 0 THEN -x ELSE x

Frac(n, d) ==
    IF d = 0 THEN [n |-> IF n < 0 THEN -1 ELSE 1, d |-> 0]
    ELSE LET k == Gcd(Abs(n), Abs(d))
             sgn == IF d < 0 THEN -1 ELSE 1
         IN [n |-> sgn * (n \div k), d |-> sgn * (d \div k)]

FromInt(x) == [n |-> x, d |-> 1]
FAdd(x, y) == Frac(x.n * y.d + y.n * x.d, x.d * y.d)
FMul(x, y) == Frac(x.n * y.n, x.d * y.d)
FDiv(x, y) == Frac(x.n * y.d, x.d * y.n)

RECURSIVE IntPow(_, _)
IntPow(x, k) == IF k = 0 THEN 1 ELSE x * IntPow(x, k - 1)
\* pow(base, exponent) for integral arguments.
FPow(base, exponent) ==
    IF exponent >= 0 THEN FromInt(IntPow(base, exponent))
    ELSE Frac(1, IntPow(base, -exponent))

\* What an execute call did: its return value and its calls on the context
\* (set_output_float, set_error; the math nodes contain no trigger_output call).
ExecResult(ret, outputs, errors) ==
    [ret |-> ret, outputs |-> outputs, errors |-> errors, triggers |-> <<>>]

\* Mutant: Add announcing its result on an execution output.
add_execute_Triggering(a, b) ==
    [ret |-> TRUE, outputs |-> << <<"Result", FAdd(FromInt(a), FromInt(b))>> >>,
     errors |-> <<>>, triggers |-> <<"Result">>]

\* math_plugin.cpp lines 27-36
add_execute(a, b) ==
    ExecResult(TRUE, << <<"Result", FAdd(FromInt(a), FromInt(b))>> >>, <<>>)

\* Mutant: multiply_execute keeping a running product in a static variable.
multiply_execute_Accumulating(a, b) ==
    LET acc == IF m.node = "Multiply" /\ m.outputs # <<>> THEN m.outputs[1][2] ELSE FromInt(1)
    IN ExecResult(TRUE, << <<"Result", FMul(acc, FMul(FromInt(a), FromInt(b)))>> >>, <<>>)

\* lines 73-82
multiply_execute(a, b) ==
    ExecResult(TRUE, << <<"Result", FMul(FromInt(a), FromInt(b))>> >>, <<>>)

\* Mutant: divide_execute without the b == 0.0 test.
divide_execute_Unchecked(a, b) ==
    ExecResult(TRUE, << <<"Result", FDiv(FromInt(a), FromInt(b))>> >>, <<>>)

\* Mutant: divide_execute computing b / a instead of a / b.
divide_execute_Swapped(a, b) ==
    IF b = 0
    THEN ExecResult(FALSE, <<>>, <<"Division by zero">>)
    ELSE ExecResult(TRUE, << <<"Result", FDiv(FromInt(b), FromInt(a))>> >>, <<>>)

\* lines 117-131
divide_execute(a, b) ==
    IF b = 0
    THEN ExecResult(FALSE, <<>>, <<"Division by zero">>)
    ELSE ExecResult(TRUE, << <<"Result", FDiv(FromInt(a), FromInt(b))>> >>, <<>>)

\* Mutant: power_execute calling pow(exponent, base).
power_execute_Swapped(base, exponent) ==
    ExecResult(TRUE, << <<"Result", FPow(exponent, base)>> >>, <<>>)

\* lines 166-175
power_execute(base, exponent) ==
    ExecResult(TRUE, << <<"Result", FPow(base, exponent)>> >>, <<>>)

MathInputs == (-MaxVal)..MaxVal

\* The host runs one execute of node `node' with inputs a, b on a fresh context.
MathCall(node, a, b, r) ==
    /\ m' = [m EXCEPT !.pc = "done", !.node = node, !.a = a, !.b = b, !.ret = r.ret,
                       !.outputs = r.outputs, !.errors = r.errors,
                       !.triggers = r.triggers]
    /\ UNCHANGED <<g_host, tinst, dinst, timers, host, g, t, ev, hist>>

add_execute_call == \E a, b \in MathInputs : MathCall("Add", a, b, add_execute(a, b))
multiply_execute_call == \E a, b \in MathInputs : MathCall("Multiply", a, b, multiply_execute(a, b))
divide_execute_call ==
    \E a \in MathInputs \cup {10}, b \in MathInputs : MathCall("Divide", a, b, divide_execute(a, b))
power_execute_call == \E a, b \in MathInputs : MathCall("Power", a, b, power_execute(a, b))

NextMath ==
    \/ add_execute_call \/ multiply_execute_call
    \/ divide_execute_call \/ power_execute_call

SpecMath == Init /\ [][NextMath]_vars

(* ----------------- math plugin: lifecycle and instances ---------------- *)

MathNodeNames ==
    [Add |-> "com.rune.example.math.add", Multiply |-> "com.rune.example.math.multiply",
     Divide |-> "com.rune.example.math.divide", Power |-> "com.rune.example.math.power"]

\* math_plugin.cpp lines 210-214
math_on_load ==
    /\ ~m.g_host
    /\ m' = [m EXCEPT !.g_host = TRUE]
    /\ UNCHANGED <<g_host, tinst, dinst, timers, host, g, t, ev, hist>>

\* lines 216-227
math_on_register ==
    /\ m.g_host
    /\ m.registered = {}
    /\ m' = [m EXCEPT !.registered = {MathNodeNames[n] : n \in DOMAIN MathNodeNames}]
    /\ host' = [host EXCEPT !.registry =
                    RegisterNodes(@, <<add_desc, multiply_desc, divide_desc, power_desc>>)]
    /\ UNCHANGED <<g_host, tinst, dinst, timers, g, t, ev, hist>>

\* lines 229-234
math_on_unload ==
    /\ m.g_host
    /\ m' = [m EXCEPT !.g_host = FALSE]
    /\ UNCHANGED <<g_host, tinst, dinst, timers, host, g, t, ev, hist>>

\* lines 19-21: every math vtable uses add_create, which returns nullptr
add_create ==
    /\ m.registered # {}
    /\ m.inst = "none"
    /\ m' = [m EXCEPT !.inst = "null"]
    /\ UNCHANGED <<g_host, tinst, dinst, timers, host, g, t, ev, hist>>

\* lines 23-25
add_destroy ==
    /\ m.inst = "null"
    /\ m' = [m EXCEPT !.inst = "none"]
    /\ UNCHANGED <<g_host, tinst, dinst, timers, host, g, t, ev, hist>>

\* The call recorded in m.
LastCall == [node |-> m.node, a |-> m.a, b |-> m.b, ret |-> m.ret,
             outputs |-> m.outputs, errors |-> m.errors, triggers |-> m.triggers]

\* The host runs execute of a created math node; the call before is kept in prev.
MathExecute(node, a, b, r) ==
    /\ m.inst = "null"
    /\ MathNodeNames[node] \in m.registered
    /\ m' = [m EXCEPT !.pc = "done", !.node = node, !.a = a, !.b = b, !.ret = r.ret,
                       !.outputs = r.outputs, !.errors = r.errors,
                       !.triggers = r.triggers, !.prev = LastCall]
    /\ UNCHANGED <<g_host, tinst, dinst, timers, host, g, t, ev, hist>>

\* Input pin values of the repeated calls.
RepeatInputs == {-1, 0, 2, 3}

add_execute_node == \E a, b \in RepeatInputs : MathExecute("Add", a, b, add_execute(a, b))
multiply_execute_node ==
    \E a, b \in RepeatInputs : MathExecute("Multiply", a, b, multiply_execute(a, b))
divide_execute_node ==
    \E a, b \in RepeatInputs : MathExecute("Divide", a, b, divide_execute(a, b))
power_execute_node ==
    \E a, b \in RepeatInputs : MathExecute("Power", a, b, power_execute(a, b))

NextMathNodes ==
    \/ math_on_load \/ math_on_register \/ math_on_unload
    \/ add_create \/ add_destroy
    \/ add_execute_node \/ multiply_execute_node
    \/ divide_execute_node \/ power_execute_node

SpecMathNodes == Init /\ [][NextMathNodes]_vars

(* -------------------- one graph step over a math node ------------------ *)

\* The host builds a context and calls execute of a math node: the plugin has
\* made its context calls (outputs holds the buffered set_output_* writes,
\* errors the set_error calls) and is about to return ret.
host_execute_call ==
    /\ m.pc # "executing"
    /\ \E node \in DOMAIN MathNodeNames, a, b \in RepeatInputs :
         LET r == CASE node = "Add" -> add_execute(a, b)
                    [] node = "Multiply" -> multiply_execute(a, b)
                    [] node = "Divide" -> divide_execute(a, b)
                    [] node = "Power" -> power_execute(a, b)
         IN m' = [m EXCEPT !.pc = "executing", !.node = node, !.a = a, !.b = b,
                           !.ret = r.ret, !.outputs = r.outputs, !.errors = r.errors,
                           !.triggers = r.triggers]
    /\ UNCHANGED <<g_host, tinst, dinst, timers, host, g, t, ev, hist>>

\* Mutant: a host that publishes the buffered writes whatever execute returned.
host_execute_return_CommitAlways ==
    /\ m.pc = "executing"
    /\ m' = [m EXCEPT !.pc = "done", !.visible = m.outputs, !.propagated = TRUE]
    /\ UNCHANGED <<g_host, tinst, dinst, timers, host, g, t, ev, hist>>

\* execute returns to the host: the buffered writes are published and the step
\* carries on only if the call returned true and set_error was not called.
host_execute_return ==
    /\ m.pc = "executing"
    /\ m' = IF m.ret /\ m.errors = <<>>
            THEN [m EXCEPT !.pc = "done", !.visible = m.outputs, !.propagated = TRUE]
            ELSE [m EXCEPT !.pc = "done", !.propagated = FALSE]
    /\ UNCHANGED <<g_host, tinst, dinst, timers, host, g, t, ev, hist>>

NextGraphStep == host_execute_call \/ host_execute_return

SpecGraphStep == Init /\ [][NextGraphStep]_vars

(* ------------------- config and env plugins: lifecycle ----------------- *)

\* math_plugin.cpp (config plugin) lines 592-606
config_on_load ==
    /\ ~host.config.g_host
    /\ host' = [host EXCEPT !.config.g_host = TRUE]
    /\ UNCHANGED <<g_host, tinst, dinst, timers, g, t, ev, hist, m>>

\* lines 608-618
config_on_register ==
    /\ host.config.g_host
    /\ ~host.config.registered
    /\ host' = [host EXCEPT !.config.registered = TRUE,
                            !.registry = RegisterNodes(@, <<json_parse_desc, csv_parse_desc,
                                                           ini_get_desc>>)]
    /\ UNCHANGED <<g_host, tinst, dinst, timers, g, t, ev, hist, m>>

\* lines 620-625
config_on_unload ==
    /\ host.config.g_host
    /\ host' = [host EXCEPT !.config.g_host = FALSE]
    /\ UNCHANGED <<g_host, tinst, dinst, timers, g, t, ev, hist, m>>

\* env_plugin.cpp lines 245-267
env_on_load ==
    /\ ~host.env.g_host
    /\ host' = [host EXCEPT !.env.g_host = TRUE]
    /\ UNCHANGED <<g_host, tinst, dinst, timers, g, t, ev, hist, m>>

\* lines 269-279
env_on_register ==
    /\ host.env.g_host
    /\ ~host.env.registered
    /\ host' = [host EXCEPT !.env.registered = TRUE,
                            !.registry = RegisterNodes(@, <<env_get_desc, plugin_settings_desc,
                                                           rune_setting_desc>>)]
    /\ UNCHANGED <<g_host, tinst, dinst, timers, g, t, ev, hist, m>>

\* lines 281-286
env_on_unload ==
    /\ host.env.g_host
    /\ host' = [host EXCEPT !.env.g_host = FALSE]
    /\ UNCHANGED <<g_host, tinst, dinst, timers, g, t, ev, hist, m>>

\* Mutant: a host that calls through every slot without looking at it.
host_invoke_capability_Unchecked ==
    \E i \in DOMAIN host.registry, slot \in NodeVTableSlots :
        /\ ev' = Ev("invoke", host.registry[i].unique_name, 0, 0, slot)
        /\ UNCHANGED <<g_host, tinst, dinst, timers, host, g, t, hist, m>>

\* The host reaches the point where it would call a capability of a registered
\* node type: it calls through the slot when the slot is set and passes over a
\* NULL slot without reporting anything.
host_invoke_capability ==
    \E i \in DOMAIN host.registry, slot \in NodeVTableSlots :
        /\ ev' = Ev(IF slot \in host.registry[i].vtable THEN "invoke" ELSE "skip",
                    host.registry[i].unique_name, 0, 0, slot)
        /\ UNCHANGED <<g_host, tinst, dinst, timers, host, g, t, hist, m>>

(* --------------------- config plugin: Parse CSV node ------------------- *)

\* Mutant: csv_parse_execute releasing the table before it reads the first cell.
csv_parse_execute_FreeFirst(hostOk, csv, delimiter_str, data) ==
    LET delimiter == IF delimiter_str # "NULL" /\ delimiter_str # "" THEN delimiter_str ELSE ","
    IN  IF ~hostOk
        THEN [ret |-> FALSE, outputs |-> <<>>, errors |-> <<"Host services unavailable">>,
              calls |-> <<>>]
        ELSE [ret |-> TRUE,
              outputs |-> << <<"RowCount", IF data.null THEN 0 ELSE data.row_count>>,
                             <<"FirstCell", "">> >>,
              errors |-> <<>>,
              calls |-> << [op |-> "csv_parse", what |-> <<csv, delimiter>>],
                           [op |-> "csv_free", what |-> data],
                           [op |-> "read", what |-> "row_count"] >>]

\* math_plugin.cpp lines 467-497.  hostOk: get_host_services returned a host;
\* delimiter_str: the Delimiter input ("NULL" for a null pointer); data: what
\* host->csv_parse returned (null set for a null pointer, else a CsvData with
\* its row_count, the count of rows[0] and rows[0].cells[0]).  calls lists, in program order, the
\* csv_parse and csv_free calls and the reads made through the data pointer.
csv_parse_execute(hostOk, csv, delimiter_str, data) ==
    LET delimiter == IF delimiter_str # "NULL" /\ delimiter_str # "" THEN delimiter_str ELSE ","
        parse == [op |-> "csv_parse", what |-> <<csv, delimiter>>]
        Read(f) == [op |-> "read", what |-> f]
    IN  IF ~hostOk
        THEN [ret |-> FALSE, outputs |-> <<>>, errors |-> <<"Host services unavailable">>,
              calls |-> <<>>]
        ELSE IF data.null
        THEN [ret |-> TRUE, outputs |-> << <<"RowCount", 0>>, <<"FirstCell", "">> >>,
              errors |-> <<>>, calls |-> <<parse>>]
        ELSE LET hasCell == data.row_count > 0 /\ data.count0 > 0
             IN [ret |-> TRUE,
                 outputs |-> << <<"RowCount", data.row_count>>,
                                <<"FirstCell", IF hasCell THEN data.cell0 ELSE "">> >>,
                 errors |-> <<>>,
                 calls |-> <<parse, Read("row_count"), Read("row_count")>>
                           \o (IF data.row_count > 0 THEN <<Read("rows[0].count")>> ELSE <<>>)
                           \o (IF hasCell THEN <<Read("rows[0].cells[0]")>> ELSE <<>>)
                           \o << [op |-> "csv_free", what |-> data] >>]

\* The host runs execute of a Parse CSV node.  The parser is the host's: it may
\* return NULL or any table for any text.
csv_parse_execute_call ==
    /\ host.config.registered
    /\ \E hostOk \in BOOLEAN, csv \in {"", "a;b", "a,b"}, delimiter_str \in {"NULL", "", ";"},
          data \in [null : BOOLEAN, row_count : {0}, count0 : {0}, cell0 : {""}]
                   \cup [null : {FALSE}, row_count : 1..MaxRows, count0 : 0..MaxRows,
                         cell0 : {"", "a"}] :
         LET r == csv_parse_execute(hostOk, csv, delimiter_str, data)
         IN hist' = [hist EXCEPT !.csv = [hostOk |-> hostOk, csv |-> csv,
                                          delimiter_str |-> delimiter_str, data |-> data,
                                          ret |-> r.ret, outputs |-> r.outputs,
                                          errors |-> r.errors, calls |-> r.calls]]
    /\ UNCHANGED <<g_host, tinst, dinst, timers, host, g, t, ev, m>>

NextCsv == config_on_load \/ config_on_register \/ csv_parse_execute_call

SpecCsv == Init /\ [][NextCsv]_vars

(* ------------- config and env plugins: the lookup nodes --------------- *)

\* What a lookup node's execute did for the host answers it was given; a
\* const char* is a string, "NULL" standing for the null pointer.
LookupCall(node, hostOk, answers, r) ==
    /\ hist' = [hist EXCEPT !.lookup = [node |-> node, hostOk |-> hostOk, answers |-> answers,
                                        ret |-> r.ret, outputs |-> r.outputs,
                                        errors |-> r.errors]]
    /\ UNCHANGED <<g_host, tinst, dinst, timers, host, g, t, ev, m>>

\* Mutant: Get Env Variable leaving Value unwritten when the variable is absent.
env_get_execute_SkipsValue(hostOk, has, get) ==
    IF ~hostOk
    THEN ExecResult(FALSE, <<>>, <<"Host services unavailable">>)
    ELSE IF has
    THEN ExecResult(TRUE, << <<"Exists", TRUE>>, <<"Value", IF get # "NULL" THEN get ELSE "">> >>,
                    <<>>)
    ELSE ExecResult(TRUE, << <<"Exists", FALSE>> >>, <<>>)

\* env_plugin.cpp lines 75-98.  has, get: what host->env_has and host->env_get
\* answer for the Name input.
env_get_execute(hostOk, has, get) ==
    IF ~hostOk
    THEN ExecResult(FALSE, <<>>, <<"Host services unavailable">>)
    ELSE IF has
    THEN ExecResult(TRUE, << <<"Exists", TRUE>>, <<"Value", IF get # "NULL" THEN get ELSE "">> >>,
                    <<>>)
    ELSE ExecResult(TRUE, << <<"Exists", FALSE>>, <<"Value", "">> >>, <<>>)

\* Mutant: Parse JSON reporting every non-null lookup result as valid.
json_parse_execute_ValidIfNonNull(hostOk, result) ==
    IF ~hostOk
    THEN ExecResult(FALSE, <<>>, <<"Host services unavailable">>)
    ELSE ExecResult(TRUE, << <<"Value", IF result # "NULL" THEN result ELSE "">>,
                             <<"Valid", result # "NULL">> >>, <<>>)

\* math_plugin.cpp (config plugin) lines 410-427.  result: what
\* host->json_parse answers for the JSON and Path inputs.
json_parse_execute(hostOk, result) ==
    IF ~hostOk
    THEN ExecResult(FALSE, <<>>, <<"Host services unavailable">>)
    ELSE ExecResult(TRUE, << <<"Value", IF result # "NULL" THEN result ELSE "">>,
                             <<"Valid", result # "NULL" /\ result # "">> >>, <<>>)

\* lines 536-553.  value: what host->ini_get answers for INI, Section and Key.
ini_get_execute(hostOk, value) ==
    IF ~hostOk
    THEN ExecResult(FALSE, <<>>, <<"Host services unavailable">>)
    ELSE ExecResult(TRUE, << <<"Value", IF value # "NULL" THEN value ELSE "">>,
                             <<"Found", value # "NULL" /\ value # "">> >>, <<>>)

\* The host runs execute of a lookup node; its services answer anything.
env_get_execute_call ==
    /\ host.env.registered
    /\ \E hostOk, has \in BOOLEAN, get \in {"NULL", "", "a", "/bin"} :
         LookupCall("Get Env Variable", hostOk, <<has, get>>, env_get_execute(hostOk, has, get))

json_parse_execute_call ==
    /\ host.config.registered
    /\ \E hostOk \in BOOLEAN, result \in {"NULL", "", "1", "null", "{}"} :
         LookupCall("Parse JSON", hostOk, <<result>>, json_parse_execute(hostOk, result))

ini_get_execute_call ==
    /\ host.config.registered
    /\ \E hostOk \in BOOLEAN, value \in {"NULL", "", "value", "0"} :
         LookupCall("INI Get", hostOk, <<value>>, ini_get_execute(hostOk, value))

NextLookup ==
    \/ config_on_load \/ config_on_register
    \/ env_on_load \/ env_on_register
    \/ env_get_execute_call \/ json_parse_execute_call \/ ini_get_execute_call

SpecLookup == Init /\ [][NextLookup]_vars

\* The host loads, registers and unloads the four example plugins in any order.
NextRegistry ==
    \/ on_load \/ on_register \/ on_unload
    \/ math_on_load \/ math_on_register \/ math_on_unload
    \/ config_on_load \/ config_on_register \/ config_on_unload
    \/ env_on_load \/ env_on_register \/ env_on_unload

SpecRegistry == Init /\ [][NextRegistry]_vars

\* The four plugins are loaded and register their node types in any order while
\* the host dispatches capability calls on the node types registered so far.
NextDispatch ==
    \/ on_load \/ on_register
    \/ math_on_load \/ math_on_register
    \/ config_on_load \/ config_on_register
    \/ env_on_load \/ env_on_register
    \/ host_invoke_capability

SpecDispatch == Init /\ [][NextDispatch]_vars

(* ------------------------- node type identifiers ----------------------- *)

\* reg->unregister_node(type_id) (plugin_api.h line 318): the node type leaves
\* the table and its identifier is invalidated.
host_unregister_node ==
    \E i \in DOMAIN host.registry :
        /\ Cardinality(host.retired) < MaxUnregistered
        /\ host' = [host EXCEPT
                       !.registry = SubSeq(@, 1, i - 1) \o SubSeq(@, i + 1, Len(@)),
                       !.retired = @ \cup {host.registry[i].id}]
        /\ UNCHANGED <<g_host, tinst, dinst, timers, g, t, ev, hist, m>>

\* The four plugins are loaded and register their node types in any order while
\* the host unregisters node types from the table.
NextNodeIds ==
    \/ on_load \/ on_register
    \/ math_on_load \/ math_on_register
    \/ config_on_load \/ config_on_register
    \/ env_on_load \/ env_on_register
    \/ host_unregister_node

SpecNodeIds == Init /\ [][NextNodeIds]_vars

(* ============================== properties ============================= *)

\* C1: once timer_stop_listening has returned, timer_callback makes no
\* trigger_output call for the instance until a later start_listening succeeds.
C1_NoTriggerAfterStop ==
    ~(ev.call = "trigger_output" /\ ev.by = "timer_callback" /\ hist.quiescedT)

\* C2: a firing that finds the host with the node Listening writes TickCount and
\* then calls trigger_output("OnTimer") exactly once, and the value written is the
\* ordinal of the firing since start_listening was called.
C2_ListeningFiringReportsTick ==
    (t.pc = "timer_callback:5" /\ hist.cbListening) =>
        /\ Len(hist.cbCalls) = 2
        /\ hist.cbCalls[1].call = "set_output_int"
        /\ hist.cbCalls[1].str = "TickCount"
        /\ hist.cbCalls[1].arg = hist.cbN
        /\ hist.cbCalls[2].call = "trigger_output"
        /\ hist.cbCalls[2].str = "OnTimer"

\* C3 (safety half): while the scheduler has the Delay node in
\* AwaitingAsyncCompletion, delay_is_complete does not return true before the
\* timer created by that delay_execute call has fired.
C3_NotCompleteBeforeTimerFires ==
    (ev.call = "return" /\ ev.by = "delay_is_complete" /\ ev.arg = 1 /\ ev.str = "Awaiting")
        => hist.dTimer \in hist.fired

\* C4: once delay_is_complete has returned true, no later poll returns false
\* until delay_execute is called again.
C4_CompletionIdempotent ==
    ~(ev.call = "return" /\ ev.by = "delay_is_complete" /\ ev.arg = 0 /\ hist.dReported)

\* C4 witness: a poll made after completion was already reported (the scheduler
\* had the node back in Idle) returned true again.
C4_Witness ==
    /\ ev.call = "return" /\ ev.by = "delay_is_complete" /\ ev.arg = 1
    /\ ev.str = "Idle" /\ hist.dReported /\ dinst.alloc = "live"

\* C5: after destroy_instance returned, no timer callback touches the instance.
C5_NoUseAfterDestroy == ~CallbackOnFreedInstance

\* C6: when timer_destroy / delay_destroy has returned, no timer created by the
\* instance is still registered with the host.
C6_DestroyReleasesTimers ==
    /\ tinst.alloc = "freed" => \A r \in timers : r.cb # "timer_callback"
    /\ dinst.alloc = "freed" => \A r \in timers : r.cb # "delay_callback"

\* A step of timer_stop_listening.
TimerStopStep ==
    timer_stop_listening_1 \/ timer_stop_listening_2 \/ timer_stop_listening_3

\* C7: a timer_stop_listening call that directly follows another one changes no
\* field of the instance and makes no host call; a call on an instance that
\* start_listening was never called on makes no host call.
C7_StopIdempotent ==
    [][TimerStopStep =>
          /\ g.afterStop => (tinst' = tinst /\ timers' = timers
                             /\ ev'.call \in {"none", "return"})
          /\ ~hist.everStartedT => ev'.call \in {"none", "return"}]_vars

\* C7 witness: a second stop_listening in a row is in progress on an instance
\* that had been started.
C7_Witness ==
    /\ g.pc = "timer_stop_listening:2" /\ g.afterStop
    /\ hist.everStartedT /\ tinst.ctx # 0 /\ g_host

\* C9: no call is made through a context after the node reported completion
\* (Delay) or after stop_listening returned (Timer Event).
C9_ContextUsedOnlyWhilePermitted ==
    ev.call \in {"trigger_output", "set_output_int"} => ev.ctx \notin hist.expired

\* C8: no field of a TimerInstance or DelayInstance is written by one thread
\* while the other thread reads or writes it.
C8_NoDataRace == ~DataRace

\* C10: Divide with B = 0 returns false, calls set_error with a message and
\* makes no set_output call.
C10_DivideByZeroFails ==
    (m.pc = "done" /\ m.node = "Divide" /\ m.b = 0) =>
        /\ m.ret = FALSE
        /\ Len(m.errors) = 1 /\ m.errors[1] # ""
        /\ m.outputs = <<>>

\* C10 witness: Divide ran with a non-zero A and B = 0.
C10_Witness == m.pc = "done" /\ m.node = "Divide" /\ m.b = 0 /\ m.a = MaxVal

\* C11: Divide with B # 0 returns true, writes Result = A / B exactly once and
\* never calls set_error.
C11_DivideNonZero ==
    (m.pc = "done" /\ m.node = "Divide" /\ m.b # 0) =>
        /\ m.ret = TRUE
        /\ m.errors = <<>>
        /\ Len(m.outputs) = 1
        /\ m.outputs[1][1] = "Result"
        /\ LET q == m.outputs[1][2] IN q.d > 0 /\ q.n * m.b = m.a * q.d
        /\ (m.a = 10 /\ m.b = 2) => m.outputs[1][2] = [n |-> 5, d |-> 1]

\* C11 witness: Divide ran with A = 10, B = 2.
C11_Witness == m.pc = "done" /\ m.node = "Divide" /\ m.a = 10 /\ m.b = 2 /\ m.ret

\* C12: Add writes Result = A + B, Multiply writes Result = A * B and Power
\* writes Result = Base ^ Exponent, each exactly once and returning true.
C12_ArithmeticResults ==
    (m.pc = "done" /\ m.node \in {"Add", "Multiply", "Power"}) =>
        /\ m.ret = TRUE
        /\ m.errors = <<>>
        /\ Len(m.outputs) = 1
        /\ m.outputs[1][1] = "Result"
        /\ LET q == m.outputs[1][2] IN
             /\ m.node = "Add" => q = [n |-> m.a + m.b, d |-> 1]
             /\ m.node = "Multiply" => q = [n |-> m.a * m.b, d |-> 1]
             /\ (m.node = "Power" /\ m.b > 0) => q = [n |-> m.a ^ m.b, d |-> 1]
             /\ (m.node = "Power" /\ m.b = 0) => q = [n |-> 1, d |-> 1]
             /\ (m.node = "Power" /\ m.b < 0 /\ m.a # 0) =>
                    (q.d > 0 /\ q.n * (m.a ^ (-m.b)) = q.d)
             /\ (m.node = "Power" /\ m.b < 0 /\ m.a = 0) => q.d = 0
             /\ (m.a = 2 /\ m.b = 3) =>
                    q.n = (CASE m.node = "Add" -> 5 [] m.node = "Multiply" -> 6
                             [] m.node = "Power" -> 8)

\* C12 witness: Power ran with Base = 2, Exponent = 3 and wrote 8.
C12_Witness ==
    /\ m.pc = "done" /\ m.node = "Power" /\ m.a = 2 /\ m.b = 3
    /\ m.outputs = << <<"Result", [n |-> 8, d |-> 1]>> >>

ExecPins(desc, directions) ==
    {i \in 1..Len(DeclaredPins(desc)) :
        /\ DeclaredPins(desc)[i].kind = "PIN_KIND_EXECUTION"
        /\ DeclaredPins(desc)[i].direction \in directions}

\* C14: every registered node type obeys the rules of its flags: a
\* trigger-event type supplies start_listening and stop_listening and declares
\* no execution input; a pure-data type declares no execution pin and supplies
\* execute; an async type supplies is_complete.  Timer Event is trigger-event,
\* the four math nodes are pure-data and Delay is async.
C14_DescriptorsObeyFlagRules ==
    \A i \in 1..Len(host.registry) :
        LET d == host.registry[i] IN
        /\ "NODE_FLAG_TRIGGER_EVENT" \in d.flags =>
              /\ {"start_listening", "stop_listening"} \subseteq d.vtable
              /\ ExecPins(d, {"PIN_IN"}) = {}
        /\ "NODE_FLAG_PURE_DATA" \in d.flags =>
              /\ ExecPins(d, {"PIN_IN", "PIN_OUT"}) = {}
              /\ "execute" \in d.vtable
        /\ "NODE_FLAG_ASYNC" \in d.flags => "is_complete" \in d.vtable
        /\ d.name = "Timer Event" => "NODE_FLAG_TRIGGER_EVENT" \in d.flags
        /\ d.name \in {"Add", "Multiply", "Divide", "Power"} => "NODE_FLAG_PURE_DATA" \in d.flags
        /\ d.name = "Delay" => "NODE_FLAG_ASYNC" \in d.flags

\* Names of the node types in the registry.
RegisteredNames == {host.registry[i].name : i \in 1..Len(host.registry)}

\* C14 witness: the timer and the math plugin have both registered their nodes.
C14_Witness ==
    {"Timer Event", "Delay", "Add", "Multiply", "Divide", "Power"} \subseteq RegisteredNames

\* C15: within every registered node type the names of the pin_count declared
\* pins are pairwise distinct.
C15_PinNamesUnique ==
    \A i \in 1..Len(host.registry) :
        LET pins == DeclaredPins(host.registry[i]) IN
        /\ Len(pins) = host.registry[i].pin_count
        /\ \A j, k \in 1..Len(pins) : pins[j].name = pins[k].name => j = k

\* C15 witness: the config, env and timer plugins have registered their nodes.
C15_Witness ==
    {"Parse JSON", "INI Get", "Get Env Variable", "Timer Event"} \subseteq RegisteredNames

\* C16: no two registered node types share a unique_name.
C16_UniqueNamesDistinct ==
    \A i, j \in 1..Len(host.registry) :
        host.registry[i].unique_name = host.registry[j].unique_name => i = j

\* C16 witness: all four plugins have run on_register (twelve node types).
C16_Witness ==
    /\ host.registered # {} /\ m.registered # {}
    /\ host.config.registered /\ host.env.registered
    /\ Cardinality(RegisteredNames) = Len(host.registry)
    /\ Len(host.registry) > Cardinality(host.registered) + Cardinality(m.registered)

C18_FalseIffSetError ==
    /\ m.pc = "done" => (m.ret = FALSE <=> m.errors # <<>>)
    /\ DelayExecuteReturned(0) => DelayExecuteErrors # <<>>
    /\ DelayExecuteReturned(1) => DelayExecuteErrors = <<>>

\* C19: when create_timer returned 0, timer_start_listening and delay_execute
\* log one error-level message and return false (the node stays Idle), no timer
\* carries the handle of that attempt, and the host only ever invokes callbacks
\* of timers that a create_timer call returned a non-zero handle for.
C19_CreateTimerFailureIsSoft ==
    [][/\ (timer_start_listening_6 /\ g.ret = 0) =>
             /\ ev' = Ev("log", "timer_start_listening", 0, LOG_LEVEL_ERROR, "return false")
             /\ host'.T = "Idle" /\ g'.pc = "idle"
             /\ \A r \in timers' : r.id # g.ctx
       /\ (delay_execute_5 /\ g.ret = 0) =>
             /\ ev' = Ev("log", "delay_execute", 0, LOG_LEVEL_ERROR, "return false")
             /\ host'.D = "Idle" /\ g'.pc = "idle"
             /\ \A r \in timers' : r.id # g.ctx
       /\ host_fire_timer => (t'.id # 0 /\ \E r \in timers : r.id = t'.id)
       /\ \A r \in timers' \ timers :
             ev'.call = "create_timer" /\ ev'.arg = r.id /\ r.id # 0]_vars

\* C19 witness: delay_execute has just logged its create_timer failure while the
\* Timer Event node, whose own start had failed before, holds no timer.
C19_Witness ==
    /\ ev = Ev("log", "delay_execute", 0, LOG_LEVEL_ERROR, "return false")
    /\ tinst.alloc = "live" /\ tinst.active /\ tinst.timer_id = 0
    /\ dinst.alloc = "live" /\ dinst.timer_id = 0 /\ timers = {}

\* C20: writes made during an execute call are not visible downstream while
\* the call is in progress; they become visible when the call returns true
\* without set_error; after a false return or a set_error (Divide with B = 0)
\* nothing is published, the step is not carried on past the node, and the
\* host can still run the next step.
C20_OutputsVisibleAfterSuccess ==
    /\ [](m.pc = "done" => ENABLED host_execute_call)
    /\ [][/\ m'.pc = "executing" =>
                (m'.visible = m.visible /\ m'.propagated = m.propagated)
          /\ (m.pc = "executing" /\ m'.pc = "done") =>
                IF m.ret /\ m.errors = <<>>
                THEN m'.visible = m.outputs /\ m'.propagated
                ELSE m'.visible = m.visible /\ ~m'.propagated
          /\ (m.pc = "executing" /\ m.node = "Divide" /\ m.b = 0) =>
                (m'.visible = m.visible /\ ~m'.propagated)]_vars

\* C20 witness: Divide with B = 0 has returned false after an earlier step had
\* published a result, which downstream nodes still see.
C20_Witness ==
    /\ m.pc = "done" /\ m.node = "Divide" /\ m.b = 0 /\ ~m.ret
    /\ ~m.propagated /\ m.visible # <<>> /\ m.outputs = <<>>


\* C21: the host never calls through a capability-table slot a node type left
\* NULL (serialize, deserialize, draw_inspector, draw_node_body, on_pre_execute
\* and on_post_execute for every example node; start_listening, stop_listening
\* and is_complete where the node does not supply them), and passing over a
\* NULL slot changes nothing and reports no error.
C21_NullSlotNeverInvoked ==
    /\ [](ev.call = "invoke" =>
            /\ \E i \in DOMAIN host.registry :
                   host.registry[i].unique_name = ev.by /\ ev.str \in host.registry[i].vtable
            /\ ev.str \notin {"serialize", "deserialize", "draw_inspector", "draw_node_body",
                              "on_pre_execute", "on_post_execute"})
    /\ [][(ev' # ev /\ ev'.call = "skip") =>
            UNCHANGED <<g_host, tinst, dinst, timers, host, g, t, hist, m>>]_vars

\* C21 witness: the host passed over the NULL is_complete slot of the Add node
\* while the Delay node, which supplies is_complete, is registered too.
C21_Witness ==
    /\ ev.call = "skip" /\ ev.by = add_desc.unique_name /\ ev.str = "is_complete"
    /\ \E i \in DOMAIN host.registry : "is_complete" \in host.registry[i].vtable

\* C22: no two registered node types share a NodeTypeId, no registered type
\* carries an identifier that unregister_node invalidated, and a node type
\* keeps its identifier for as long as it stays registered.
C22_NodeTypeIdsUniqueAndStable ==
    /\ [](\A i, j \in DOMAIN host.registry :
             /\ host.registry[i].id = host.registry[j].id => i = j
             /\ host.registry[i].id > 0
             /\ host.registry[i].id \notin host.retired)
    /\ [][\A i \in DOMAIN host.registry, j \in DOMAIN host'.registry :
             host.registry[i].unique_name = host'.registry[j].unique_name =>
                 host.registry[i].id = host'.registry[j].id]_vars

\* C22 witness: a node type was registered after two identifiers had been
\* invalidated, while an earlier registration is still in the table.
C22_Witness ==
    /\ Cardinality(host.retired) = 2
    /\ \E i, j \in DOMAIN host.registry :
          /\ \A r \in host.retired : host.registry[i].id < r /\ r < host.registry[j].id

\* C23: Add, Multiply, Divide and Power supply create_instance, execute and
\* destroy_instance and no other capability, carry the pure-data flag, and no
\* execute call of theirs makes a trigger_output call.
C23_PureDataNeverTriggers ==
    /\ \A i \in DOMAIN host.registry :
          /\ host.registry[i].vtable = {"create_instance", "execute", "destroy_instance"}
          /\ host.registry[i].flags = {"NODE_FLAG_PURE_DATA"}
    /\ m.triggers = <<>>
    /\ m.prev.triggers = <<>>

\* C23 witness: the four node types are registered, an instance was created and
\* Add ran after a Divide call that failed.
C23_Witness ==
    /\ Len(host.registry) = 4 /\ m.inst = "null"
    /\ m.pc = "done" /\ m.node = "Add" /\ m.outputs # <<>>
    /\ m.prev.node = "Divide" /\ ~m.prev.ret

\* C24: csv_parse_execute passes a non-null CsvData returned by csv_parse to
\* csv_free exactly once, as its last access, reads nothing through the pointer
\* after that, and makes no csv_free call when csv_parse returned NULL or was
\* not called.
C24_CsvDataFreedOnce ==
    LET c == hist.csv.calls
        frees == {i \in DOMAIN c : c[i].op = "csv_free"}
        parses == {i \in DOMAIN c : c[i].op = "csv_parse"}
    IN  c # <<>> =>
          /\ Cardinality(parses) = 1 /\ c[1].op = "csv_parse"
          /\ Cardinality(frees) = (IF hist.csv.data.null THEN 0 ELSE 1)
          /\ \A f \in frees :
                /\ c[f].what = hist.csv.data
                /\ \A i \in DOMAIN c : c[i].op = "read" => i < f
          /\ hist.csv.data.null => \A i \in DOMAIN c : c[i].op # "read"

\* C24 witness: the parser returned a table with a first cell, which the node
\* read before it released the table.
C24_Witness ==
    /\ hist.csv.calls # <<>>
    /\ ~hist.csv.data.null
    /\ hist.csv.outputs[2] = <<"FirstCell", "a">>
    /\ hist.csv.calls[Len(hist.csv.calls)].op = "csv_free"

\* C25: no delay_execute call leads to more than one trigger_output("OnComplete")
\* call on its context, whatever the interleaving of delay_execute with the
\* timer thread.
C25_DelayFiresOnce == [][delay_callback_3 => dinst.ctx # hist.dTrigCtx]_vars

\* C26: every handle the plugin passes to destroy_timer is, at the time of the
\* call, the handle of a live timer that a create_timer call of the same
\* instance returned: it is not 0, not a handle destroyed before and not a
\* handle of the other node.
C26_DestroyOnlyLiveOwnHandles ==
    [][(ev'.call = "destroy_timer" /\ (ev' # ev \/ timers' # timers)) =>
          /\ \E r \in timers :
                /\ r.id = ev'.arg
                /\ r.cb = (IF ev'.by \in {"delay_callback", "delay_destroy"}
                           THEN "delay_callback" ELSE "timer_callback")]_vars

\* C29: whenever timer_start_listening returns false (null instance or host,
\* or create_timer returned 0), an instance that exists has active = false,
\* timer_id = 0 and no retained context afterwards.
C29_FailedStartLeavesIdle ==
    [][((timer_start_listening_1 \/ timer_start_listening_6)
          /\ ev'.by = "timer_start_listening"
          /\ (ev'.call = "return" \/ ev'.str = "return false")
          /\ tinst'.alloc = "live") =>
             /\ ~tinst'.active
             /\ tinst'.timer_id = 0
             /\ tinst'.ctx = 0]_vars

\* C30: a delay_execute call that returns false or throws leaves no timer of
\* that call live and leaves the instance as it was: a call that fails before
\* it reaches the stores changes no field, and after a call that fails on
\* create_timer the stored context is not the context of the failed call.
C30_FailedExecuteChangesNothing ==
    [][/\ (delay_execute_1 /\ g'.pc = "idle") => dinst' = dinst
       /\ (delay_execute_5 /\ g.ret = 0) =>
             /\ dinst'.ctx # g.ctx
             /\ \A r \in timers' : r.id # g.ctx]_vars

\* C27: the interval delay_execute passes to create_timer is never 0; it is the
\* DelayMs input when DelayMs is positive and 1000 when DelayMs is zero or
\* negative, for every int64_t value of DelayMs.
C27_DelayIntervalNeverZero ==
    [][delay_execute_4 =>
          LET d == g.arg
              i == hist'.interval
              positive == d.l3 < Limb \div 2 /\ (d.l3 > 0 \/ d.l2 > 0 \/ d.l1 > 0 \/ d.l0 > 0)
          IN  /\ i # U32Zero
              /\ positive => (d.l3 = 0 /\ d.l2 = 0 /\ i = U32(d.l1, d.l0))
              /\ ~positive => i = U32(0, DefaultDelayMs)]_vars

\* C28: on every timer_start_listening call, restarts included, the interval
\* passed to create_timer is the value of the IntervalMs property when the
\* property is a positive number, is 1000 when the property is unset, empty,
\* zero or not a positive number, and is never 0.
C28_IntervalFromPropertyOrDefault ==
    [][timer_start_listening_5 =>
          LET prop == g.arg
              positive == /\ prop # <<>>
                          /\ \A k \in DOMAIN prop : prop[k] \in Digits
                          /\ atoi(prop) > 0
          IN  /\ hist'.interval # U32Zero
              /\ positive => hist'.interval = ToUint32(atoi(prop))
              /\ ~positive => hist'.interval = U32(0, DefaultIntervalMs)]_vars

\* C31: the timer plugin's g_host is non-null exactly while the plugin is
\* loaded: it is null before on_load, after on_unload and after an on_load
\* that failed or raised a fault.
C31_HostHandleOnlyWhileLoaded == g_host <=> host.load = "loaded"

\* C32: no plugin code calls through g_host while g_host is null, in any
\* interleaving of on_unload with the timer callbacks and capability calls.
C32_NoCallThroughNullHost == ev.call # "null_dereference"

\* C33: an on_register call of the timer plugin registers both node types,
\* Timer Event before Delay, or raises a fault and registers nothing; at no time
\* is exactly one of the two registered.
C33_RegistrationAllOrNothing ==
    /\ [](/\ host.registered \in {{}, {timer_desc.unique_name, delay_desc.unique_name}}
          /\ host.registered =
                {host.registry[i].unique_name : i \in DOMAIN host.registry}
                    \cap {timer_desc.unique_name, delay_desc.unique_name}
          /\ \A i, j \in DOMAIN host.registry :
                (host.registry[i].unique_name = timer_desc.unique_name
                   /\ host.registry[j].unique_name = delay_desc.unique_name) => j = i + 1)
    /\ [][on_register =>
             IF ev'.call = "throw"
             THEN host'.registry = host.registry /\ host'.registered = {}
             ELSE host'.registered = {timer_desc.unique_name, delay_desc.unique_name}]_vars

\* C33 witness: on_register has just raised its fault; nothing of the timer
\* plugin is registered while node types of another plugin are.
C33_Witness ==
    /\ ev.call = "throw" /\ ev.by = "on_register"
    /\ host.registered = {}
    /\ host.registry # <<>>

\* C34: a Get Env Variable execute that returns true has written Exists and
\* Value once each, Exists being the host's env_has answer and Value the host's
\* env_get answer when Exists is true (a null answer is written as the empty
\* string) and the empty string when Exists is false; without host services it
\* writes no output, calls set_error and returns false.
C34_EnvGetOutputs ==
    hist.lookup.node = "Get Env Variable" =>
        LET c == hist.lookup
            has == c.answers[1]
            get == c.answers[2]
        IN  IF c.hostOk
            THEN /\ c.ret /\ c.errors = <<>>
                 /\ Len(c.outputs) = 2
                 /\ c.outputs[1] = <<"Exists", has>>
                 /\ c.outputs[2] = <<"Value", IF has /\ get # "NULL" THEN get ELSE "">>
            ELSE ~c.ret /\ c.outputs = <<>> /\ Len(c.errors) = 1

\* C34 witness: the variable is reported absent while env_get would answer a
\* text; Value is written empty.
C34_Witness ==
    /\ hist.lookup.node = "Get Env Variable"
    /\ hist.lookup.hostOk /\ hist.lookup.answers = <<FALSE, "a">>
    /\ hist.lookup.outputs[2] = <<"Value", "">>

\* C35: on every successful execute of Parse JSON and INI Get the boolean
\* output (Valid, Found) is true exactly when the Value written by the same
\* call is not empty, and a null lookup result is written as the empty string
\* with the boolean false.
C35_ValidIffValueNonEmpty ==
    (hist.lookup.node \in {"Parse JSON", "INI Get"} /\ hist.lookup.ret) =>
        LET c == hist.lookup IN
        /\ Len(c.outputs) = 2
        /\ c.outputs[1][1] = "Value"
        /\ c.outputs[2][1] = (IF c.node = "Parse JSON" THEN "Valid" ELSE "Found")
        /\ c.outputs[2][2] <=> c.outputs[1][2] # ""
        /\ c.answers[1] = "NULL" => (c.outputs[1][2] = "" /\ ~c.outputs[2][2])
        /\ c.answers[1] # "NULL" => c.outputs[1][2] = c.answers[1]

\* C35 witness: the JSON lookup answered the empty string, which is written
\* with Valid false.
C35_Witness ==
    /\ hist.lookup.node = "Parse JSON" /\ hist.lookup.ret
    /\ hist.lookup.answers = <<"">>
    /\ hist.lookup.outputs = << <<"Value", "">>, <<"Valid", FALSE>> >>
====
